---- MODULE Spec2Model ----
(***************************************************************************)
(* Model of the Webmention receiver of cvanloo/gowebmention: the HTTP      *)
(* ingress handler (Receiver.ServeHTTP / Receiver.handle), the bounded     *)
(* request queue (a buffered Go channel), the worker loops                 *)
(* (Receiver.ProcessMentions), the verification of one Mention             *)
(* (Receiver.processMention) and the shutdown protocol                     *)
(* (Receiver.Shutdown with a deadline-carrying context).                   *)
(***************************************************************************)
EXTENDS Integers, Sequences, FiniteSets, TLC

(***************************************************************************)
(* Bounds of the model.                                                    *)
(***************************************************************************)
\* Number of HTTP requests the environment sends to the handler.
MaxRequests == 2
\* Capacity of the request queue (WithQueueSize).
QueueSize == 1
\* Number of goroutines running ProcessMentions.
NumWorkers == 1
\* Number of entries of the Link headers of a target.
MaxLinks == 2
\* Number of elements of the document of a target.
MaxElems == 2
\* Length of the lists of targets handed to the sender and returned by the
\* Persister.
MaxTargets == 2
\* Number of WithMediaHandler options handed to NewReceiver.
MaxOptions == 2
\* Most request lines one client writes to a connection of the sender daemon.
MaxLines == 2

(***************************************************************************)
(* Values.                                                                 *)
(***************************************************************************)
StatusLink == "source links to target"
StatusNoLink == "source does not link to target"
StatusDeleted == "source itself got deleted"

\* The notifiers registered with WithNotifier, in registration order.
notifiers == <<"n1", "n2">>

\* The media handler registry NewReceiver builds.
mediaHandler ==
    << [name |-> "text/html", qweight |-> 10, handler |-> "HtmlHandler"],
       [name |-> "text/plain", qweight |-> 1, handler |-> "PlainHandler"] >>

\* mediaRegister.Get: the handler of the first entry named mime.
RECURSIVE Get(_, _)
Get(mr, mime) ==
    IF mr = << >> THEN [handler |-> "nil", ok |-> FALSE]
    ELSE IF Head(mr).name = mime THEN [handler |-> Head(mr).handler, ok |-> TRUE]
    ELSE Get(Tail(mr), mime)

(***************************************************************************)
(* URLs.  A raw form value is the text a client sends; url.Parse turns it  *)
(* into a URL value, lower-casing the scheme and keeping host and path.    *)
(***************************************************************************)
RawURL(s, h, p) == [scheme |-> s, host |-> h, path |-> p, wellformed |-> TRUE]

\* A form value url.Parse rejects (an invalid percent escape).
MalformedRaw == [scheme |-> "", host |-> "", path |-> "%zz", wellformed |-> FALSE]

\* strings.ToLower on the texts of the model.
ToLower(s) ==
    CASE s = "HTTP" -> "http"
      [] s = "HTTPS" -> "https"
      [] s = "Text/HTML" -> "text/html"
      [] s = "WebMention" -> "webmention"
      [] s = "/A" -> "/a"
      [] OTHER -> s

\* url.Parse: an error for a malformed text, else the URL with its scheme
\* lower-cased.
Parse(raw) ==
    IF ~raw.wellformed
    THEN [err |-> TRUE, url |-> [Scheme |-> "", Host |-> "", Path |-> ""]]
    ELSE [err |-> FALSE,
          url |-> [Scheme |-> ToLower(raw.scheme), Host |-> raw.host, Path |-> raw.path]]

\* URL.String.
String(u) == <<u.Scheme, "://", u.Host, u.Path>>

\* The accept function the mentionee daemon configures: the target must be
\* on the accepted domain (scheme and host of ACCEPT_DOMAIN).
targetAccepts(source, target) == target.Scheme = "http" /\ target.Host = "h"

(***************************************************************************)
(* Requests to the handler.                                                *)
(***************************************************************************)
\* formOK: whether r.ParseForm succeeds; source, target: the values of the
\* form field (none, one or several); writeOK: whether writing the
\* response body succeeds.
Request(method, formOK, source, target, writeOK) ==
    [method |-> method, formOK |-> formOK, source |-> source, target |-> target,
     writeOK |-> writeOK]

\* A request that passes every check of the handler.
ValidRequest ==
    Request("POST", TRUE, <<RawURL("https", "h", "/b")>>, <<RawURL("http", "h", "/a")>>,
            TRUE)

\* The requests sent to the handler: the valid one, and one for each way
\* of differing from it that the handler looks at.
Requests ==
    { ValidRequest,
      [ValidRequest EXCEPT !.writeOK = FALSE],
      [ValidRequest EXCEPT !.method = "GET"],
      [ValidRequest EXCEPT !.formOK = FALSE],
      [ValidRequest EXCEPT !.source = << >>],
      [ValidRequest EXCEPT !.target = << >>],
      [ValidRequest EXCEPT !.source = <<RawURL("https", "h", "/b"), RawURL("http", "h", "/a")>>],
      [ValidRequest EXCEPT !.target = <<RawURL("http", "h", "/a"), RawURL("https", "h", "/b")>>],
      [ValidRequest EXCEPT !.source = <<RawURL("http", "h", "/a")>>],
      [ValidRequest EXCEPT !.source = <<RawURL("HTTP", "h", "/a")>>],
      [ValidRequest EXCEPT !.source = <<MalformedRaw>>],
      [ValidRequest EXCEPT !.target = <<MalformedRaw>>],
      [ValidRequest EXCEPT !.source = <<RawURL("ftp", "h", "/a")>>],
      [ValidRequest EXCEPT !.target = <<RawURL("ftp", "h", "/a")>>],
      [ValidRequest EXCEPT !.target = <<RawURL("https", "h", "/a")>>] }

Mention(id, source, target, status) ==
    [id |-> id, Source |-> source, Target |-> target, Status |-> status]

\* The value of a Mention variable that holds no Mention.
NoMention ==
    Mention(0, [Scheme |-> "", Host |-> "", Path |-> ""],
            [Scheme |-> "", Host |-> "", Path |-> ""], "")

VARIABLES
    queue,          \* the buffer of the channel behind enqueue/dequeue
    enqueueClosed,  \* close(receiver.enqueue) has run
    shutdown,       \* close(receiver.shutdown) has run
    ctxDone,        \* the deadline of Shutdown's context has fired
    nextReq,        \* number of requests handled so far
    response,       \* per request, the status code answered (0: none)
    panics,         \* the requests whose handler invocation panicked
    pc,             \* per goroutine, where it stands
    mention,        \* per goroutine, the Mention it is processing
    mime,           \* per goroutine, processMention's local mime
    fetched,        \* per Mention, the requests sent to its source
    assigned,       \* per Mention, the values assigned to mention.Status
    invoked,        \* per Mention, the notifier calls started (go Receive)
    reported,       \* per Mention, the errors handed to Report
    acceptedBefore, \* the Mentions answered 202 before Shutdown was called
    web,            \* how the source answers the worker's HEAD and GET
    received        \* per Mention, the notifier calls that have begun to run

\* The sender: one call of a method of Sender and the web it talks to.
VARIABLES
    call,           \* the method called and its arguments
    site,           \* per target, how the target and its endpoint answer
    persist,        \* what Persister.PastTargets answers
    spc,            \* where the call stands
    todo,           \* MentionMany: the targets not yet mentioned
    errs,           \* MentionMany: the errors joined so far
    requests,       \* the HTTP requests sent so far
    result,         \* what the call returned
    earlier         \* the requests sent by the calls made before this one

\* The configuration of a receiver and the verification of one source.
VARIABLES
    options,        \* the WithMediaHandler options not yet applied
    applied,        \* the options applied so far
    register,       \* receiver.mediaHandler
    verified        \* the source verified, with the handler used and its verdict

senderVars == <<call, site, persist, spc, todo, errs, requests, result, earlier>>
chanVars == <<queue, enqueueClosed, shutdown, ctxDone>>
httpVars == <<nextReq, response, panics>>
procVars == <<pc, mention, mime>>
logVars == <<fetched, assigned, invoked, reported>>
receiverVars == <<chanVars, httpVars, procVars, logVars, acceptedBefore, web, received>>
configVars == <<options, applied, register, verified>>

\* The sender daemon (cmd/sender): one connection of its socket.
VARIABLES
    conn            \* the lines sent, those read, the responses written

\* The mentionee daemon (cmd/mentionee): its HTTP server and the
\* ReportAggregator it registers as a notifier.
VARIABLES
    server,         \* the state of the HTTP server and the handlers running
    agg             \* the ReportAggregator and the calls of its methods

vars == <<receiverVars, senderVars, configVars, conn, server, agg>>

Ids == 1..MaxRequests
Workers == 1..NumWorkers
\* The goroutine that calls Shutdown.
Caller == 0
Procs == Workers \cup {Caller}

(***************************************************************************)
(* Ingress: Receiver.ServeHTTP and Receiver.handle.                        *)
(***************************************************************************)
\* What handle did: the error it returned ("" for nil), whether the send
\* on enqueue succeeded and with which Mention, whether the send panicked,
\* and the status handle itself wrote with w.WriteHeader (0: none).
Result(err, sent, m, panicked, header) ==
    [err |-> err, sent |-> sent, mention |-> m, panic |-> panicked,
     wroteHeader |-> header]

Reject(err) == Result(err, FALSE, NoMention, FALSE, 0)

SchemeSupported(u) == u.Scheme = "http" \/ u.Scheme = "https"

\* The checks of handle before the enqueue step: the error of the first
\* check that fails, "" when all pass.
Validate(r) ==
    IF r.method # "POST" THEN "MethodNotAllowed"
    ELSE IF ~r.formOK THEN "BadRequest"
    ELSE IF r.source = << >> THEN "BadRequest"
    ELSE IF r.target = << >> THEN "BadRequest"
    ELSE IF Len(r.source) # 1 THEN "BadRequest"
    ELSE IF Len(r.target) # 1 THEN "BadRequest"
    ELSE IF r.source[1] = r.target[1] THEN "BadRequest"
    ELSE IF Parse(r.source[1]).err THEN "BadRequest"
    ELSE IF Parse(r.target[1]).err THEN "BadRequest"
    ELSE IF ~SchemeSupported(Parse(r.source[1]).url) THEN "BadRequest"
    ELSE IF ~SchemeSupported(Parse(r.target[1]).url) THEN "BadRequest"
    ELSE IF ~targetAccepts(Parse(r.source[1]).url, Parse(r.target[1]).url)
         THEN "BadRequest"
    ELSE ""

\* The requests that pass every check before the enqueue step.
ValidRequests == { r \in Requests : Validate(r) = "" }

\* An enqueue step whose test for a full buffer is off by one.
EnqueueOffByOne(r, id, q, closed) ==
    LET m == Mention(id, Parse(r.source[1]).url, Parse(r.target[1]).url,
                     StatusNoLink)
    IN  IF closed THEN Result("", FALSE, NoMention, TRUE, 0)
        ELSE IF Len(q) > QueueSize THEN Reject("TooManyRequests")
        ELSE IF ~r.writeOK THEN Result("write failed", TRUE, m, FALSE, 202)
        ELSE Result("", TRUE, m, FALSE, 202)

\* An enqueue step that treats the closed channel as a full one instead of
\* panicking.
EnqueueClosedIsFull(r, id, q, closed) ==
    LET m == Mention(id, Parse(r.source[1]).url, Parse(r.target[1]).url,
                     StatusNoLink)
    IN  IF closed \/ Len(q) >= QueueSize THEN Reject("TooManyRequests")
        ELSE IF ~r.writeOK THEN Result("write failed", TRUE, m, FALSE, 202)
        ELSE Result("", TRUE, m, FALSE, 202)

\* The enqueue step of handle and what follows it: a send on the closed
\* channel panics; a full buffer takes the default case; otherwise the
\* Mention is sent, 202 is written and the body write may fail.
Enqueue(r, id, q, closed) ==
    LET m == Mention(id, Parse(r.source[1]).url, Parse(r.target[1]).url,
                     StatusNoLink)
    IN  IF closed THEN Result("", FALSE, NoMention, TRUE, 0)
        ELSE IF Len(q) >= QueueSize THEN Reject("TooManyRequests")
        ELSE IF ~r.writeOK THEN Result("write failed", TRUE, m, FALSE, 202)
        ELSE Result("", TRUE, m, FALSE, 202)

\* The checks of handle up to the parsing of the two URLs.
Parses(r) ==
    /\ r.method = "POST" /\ r.formOK
    /\ Len(r.source) = 1 /\ Len(r.target) = 1
    /\ r.source[1] # r.target[1]
    /\ ~Parse(r.source[1]).err /\ ~Parse(r.target[1]).err

\* A handle with the enqueue step moved before the scheme and accept
\* checks: a request those checks reject is answered 400, but its Mention
\* was sent already.
handleEnqueuesEarly(r, id, q, closed) ==
    IF Validate(r) = "" THEN Enqueue(r, id, q, closed)
    ELSE IF Parses(r) /\ Enqueue(r, id, q, closed).sent
         THEN [Enqueue(r, id, q, closed) EXCEPT !.err = Validate(r), !.wroteHeader = 0]
    ELSE Reject(Validate(r))

handle(r, id, q, closed) ==
    IF Validate(r) # "" THEN Reject(Validate(r)) ELSE Enqueue(r, id, q, closed)

\* ErrorResponder.RespondError: the status the error answers with; 0 for
\* an error that is no ErrorResponder.
RespondError(err) ==
    CASE err = "MethodNotAllowed" -> 405
      [] err = "BadRequest" -> 400
      [] err = "TooManyRequests" -> 429
      [] OTHER -> 0

\* The status the client is answered with: the first WriteHeader of the
\* response wins, so an error after handle wrote 202 leaves 202.
Answered(res) ==
    IF res.wroteHeader # 0 THEN res.wroteHeader
    ELSE IF res.err = "" THEN 0
    ELSE IF RespondError(res.err) # 0 THEN RespondError(res.err)
    ELSE 500

ServeHTTP(r) ==
    /\ nextReq < MaxRequests
    /\ LET id == nextReq + 1
           res == handle(r, id, queue, enqueueClosed)
       IN  /\ nextReq' = id
           /\ queue' = IF res.sent THEN Append(queue, res.mention) ELSE queue
           /\ panics' = IF res.panic THEN panics \cup {id} ELSE panics
           /\ response' = [response EXCEPT ![id] = Answered(res)]
    /\ UNCHANGED <<enqueueClosed, shutdown, ctxDone, procVars, logVars, acceptedBefore, web, received, senderVars, configVars, conn, server, agg>>

(***************************************************************************)
(* The source of a Mention, as the worker's HTTP client sees it.           *)
(***************************************************************************)
\* mime.ParseMediaType: an error when the header names no media type, else
\* the media type, lower-cased, without its parameters.
ParseMediaType(contentHeader) ==
    IF contentHeader.media = "" THEN [err |-> TRUE, mediaType |-> ""]
    ELSE [err |-> FALSE, mediaType |-> ToLower(contentHeader.media)]

\* Content-Type header values: the media type text and the parameters.
ContentType(media, params) == [media |-> media, params |-> params]

HtmlContent == ContentType("Text/HTML", "charset=utf-8")

\* An answer of httpClient.Do to the HEAD request.
HeadResponse(status, contentType) ==
    [err |-> FALSE, status |-> status, contentType |-> contentType]

\* The ways the source answers HEAD: not at all; an HTML document with
\* each of the status codes; a document of a type without handler; no
\* Content-Type at all.
HeadResponses ==
    { [err |-> TRUE, status |-> 0, contentType |-> ContentType("", "")],
      HeadResponse(200, HtmlContent), HeadResponse(300, HtmlContent),
      HeadResponse(404, HtmlContent), HeadResponse(410, HtmlContent),
      HeadResponse(200, ContentType("application/json", "")),
      HeadResponse(200, ContentType("", "")) }

\* What the body of the source holds: a link to the target, no such link,
\* or a body whose read fails.
Bodies == {"links", "nolink", "unreadable"}

\* The ways the source answers GET: not at all; with 200 and each body;
\* with 404 and a body.
GetResponses ==
    { [err |-> TRUE, status |-> 0, body |-> "unreadable"],
      [err |-> FALSE, status |-> 404, body |-> "links"] }
    \cup [err : {FALSE}, status : {200}, body : Bodies]

\* An answer of httpClient.Do to the GET request.
GetResponse(status, body) == [err |-> FALSE, status |-> status, body |-> body]

\* The sources of the model, each by its answers to HEAD and GET: the
\* source that answers HEAD with 200 and an HTML document, with every GET
\* answer; and for every other HEAD answer the source whose GET answers
\* 200 with a document that links to the target.
Sources ==
    { [head |-> HeadResponse(200, HtmlContent), get |-> g] : g \in GetResponses }
    \cup { [head |-> h, get |-> GetResponse(200, "links")] : h \in HeadResponses }

\* PlainHandler and HtmlHandler: an error when the body cannot be read,
\* StatusLink when it holds the link, StatusNoLink otherwise.
RunHandler(handler, body) ==
    IF body = "unreadable" THEN [err |-> "read failed", status |-> ""]
    ELSE IF body = "links" THEN [err |-> "", status |-> StatusLink]
    ELSE [err |-> "", status |-> StatusNoLink]

(***************************************************************************)
(* Receiver.processMention.                                                *)
(***************************************************************************)
\* What a part of processMention decided: whether the function returns, the
\* error it returns ("" for nil), the status it assigned to mention.Status
\* ("" for no assignment), whether it started the notifiers, and mime.
Outcome(returns, err, status, notify, mediaType) ==
    [returns |-> returns, err |-> err, status |-> status, notify |-> notify,
     mime |-> mediaType]

\* The test for a source that does not exist.
SourceNotFound(status) == status < 200 \/ status > 300

\* A first block without the test for 410: a deleted source is reported as
\* not found.
AfterHeadWithoutGone(resp) ==
    IF resp.err THEN Outcome(TRUE, "transport", "", FALSE, "")
    ELSE IF SourceNotFound(resp.status)
         THEN Outcome(TRUE, "ErrSourceNotFound", "", FALSE, "")
    ELSE IF ParseMediaType(resp.contentType).err
         THEN Outcome(TRUE, "mime: no media type", "", FALSE, "")
    ELSE Outcome(FALSE, "", "", FALSE, ParseMediaType(resp.contentType).mediaType)

\* The first block of processMention, after the HEAD request was answered.
AfterHead(resp) ==
    IF resp.err THEN Outcome(TRUE, "transport", "", FALSE, "")
    ELSE IF resp.status = 410 THEN Outcome(TRUE, "", StatusDeleted, TRUE, "")
    ELSE IF SourceNotFound(resp.status)
         THEN Outcome(TRUE, "ErrSourceNotFound", "", FALSE, "")
    ELSE IF ParseMediaType(resp.contentType).err
         THEN Outcome(TRUE, "mime: no media type", "", FALSE, "")
    ELSE Outcome(FALSE, "", "", FALSE, ParseMediaType(resp.contentType).mediaType)

\* A second block that goes on to the notifiers although the media handler
\* returned an error.
AfterGetIgnoresHandlerError(resp, handler) ==
    IF resp.err THEN Outcome(TRUE, "transport", "", FALSE, "")
    ELSE IF RunHandler(handler, resp.body).err # ""
         THEN Outcome(TRUE, RunHandler(handler, resp.body).err, StatusNoLink, TRUE, "")
    ELSE Outcome(TRUE, "", RunHandler(handler, resp.body).status, TRUE, "")

\* The second block of processMention, after the GET request was answered.
AfterGet(resp, handler) ==
    IF resp.err THEN Outcome(TRUE, "transport", "", FALSE, "")
    ELSE IF RunHandler(handler, resp.body).err # ""
         THEN Outcome(TRUE, RunHandler(handler, resp.body).err, "", FALSE, "")
    ELSE Outcome(TRUE, "", RunHandler(handler, resp.body).status, TRUE, "")

\* The calls "go notifier.Receive(mention)" of the loop over the notifiers.
Notify(m) ==
    [i \in 1..Len(notifiers) |-> [notifier |-> notifiers[i], mention |-> m]]

\* A return that starts the notifiers with the Mention as it was dequeued,
\* before the status is assigned.
ReturnNotifiesBeforeAssign(p, out) ==
    LET id == mention[p].id
    IN  /\ assigned' = IF out.status = "" THEN assigned
                       ELSE [assigned EXCEPT ![id] = Append(@, out.status)]
        /\ invoked' = IF out.notify
                      THEN [invoked EXCEPT ![id] = @ \o Notify(mention[p])]
                      ELSE invoked
        /\ reported' = [reported EXCEPT ![id] = Append(@, out.err)]
        /\ pc' = [pc EXCEPT ![p] = "select"]
        /\ mention' = [mention EXCEPT ![p] = NoMention]
        /\ mime' = [mime EXCEPT ![p] = ""]

\* A return that calls notifier.Receive without "go": the worker stands
\* inside the call of the first notifier until that notifier returns.
ReturnWaitsForNotifiers(p, out) ==
    LET id == mention[p].id
        m == IF out.status = "" THEN mention[p]
             ELSE [mention[p] EXCEPT !.Status = out.status]
    IN  /\ assigned' = IF out.status = "" THEN assigned
                       ELSE [assigned EXCEPT ![id] = Append(@, out.status)]
        /\ invoked' = IF out.notify
                      THEN [invoked EXCEPT ![id] = Append(@, Notify(m)[1])]
                      ELSE invoked
        /\ reported' = IF out.notify THEN reported
                       ELSE [reported EXCEPT ![id] = Append(@, out.err)]
        /\ pc' = [pc EXCEPT ![p] = IF out.notify THEN "notifying" ELSE "select"]
        /\ mention' = [mention EXCEPT ![p] = NoMention]
        /\ mime' = [mime EXCEPT ![p] = ""]

\* processMention returns with outcome out and the loop that called it
\* hands the error to Report.
Return(p, out) ==
    LET id == mention[p].id
        m == IF out.status = "" THEN mention[p]
             ELSE [mention[p] EXCEPT !.Status = out.status]
    IN  /\ assigned' = IF out.status = "" THEN assigned
                       ELSE [assigned EXCEPT ![id] = Append(@, out.status)]
        /\ invoked' = IF out.notify
                      THEN [invoked EXCEPT ![id] = @ \o Notify(m)]
                      ELSE invoked
        /\ reported' = [reported EXCEPT ![id] = Append(@, out.err)]
        /\ pc' = [pc EXCEPT ![p] = "select"]
        /\ mention' = [mention EXCEPT ![p] = NoMention]
        /\ mime' = [mime EXCEPT ![p] = ""]

\* The HEAD request and the first block.  processMention closes no response
\* body: the body of every response it obtained stays open.
ProcessHead(p) ==
    /\ pc[p] = "head"
    /\ LET resp == web.head
           out == AfterHead(resp)
       IN     /\ fetched' = [fetched EXCEPT ![mention[p].id] =
                                Append(@, [method |-> "HEAD", status |-> resp.status,
                                           body |-> IF resp.err THEN "none" ELSE "open"])]
              /\ IF out.returns
                 THEN Return(p, out)
                 ELSE /\ pc' = [pc EXCEPT ![p] = "get"]
                      /\ mime' = [mime EXCEPT ![p] = out.mime]
                      /\ UNCHANGED <<mention, assigned, invoked, reported>>
    /\ UNCHANGED <<chanVars, httpVars, acceptedBefore, web, received, senderVars, configVars, conn, server, agg>>

\* The handler lookup fails: no GET is sent.
ProcessNoHandler(p) ==
    /\ pc[p] = "get"
    /\ ~Get(mediaHandler, mime[p]).ok
    /\ Return(p, Outcome(TRUE, "no mime handler registered", "", FALSE, ""))
    /\ UNCHANGED <<chanVars, httpVars, fetched, acceptedBefore, web, received, senderVars, configVars, conn, server, agg>>

\* A second block that takes a Mention for a Source and Target it has
\* verified before as a duplicate: it returns nil and starts no notifier.
ProcessGetOnce(p) ==
    /\ pc[p] = "get"
    /\ Get(mediaHandler, mime[p]).ok
    /\ LET resp == web.get
           seen == \E id \in Ids \ {mention[p].id} :
                       /\ invoked[id] # << >>
                       /\ invoked[id][1].mention.Source = mention[p].Source
                       /\ invoked[id][1].mention.Target = mention[p].Target
       IN /\ fetched' = [fetched EXCEPT ![mention[p].id] =
                            Append(@, [method |-> "GET", status |-> resp.status,
                                       body |-> IF resp.err THEN "none" ELSE "open"])]
          /\ Return(p, IF seen THEN Outcome(TRUE, "", "", FALSE, "")
                       ELSE AfterGet(resp, Get(mediaHandler, mime[p]).handler))
    /\ UNCHANGED <<chanVars, httpVars, acceptedBefore, web, received, senderVars, configVars, conn, server, agg>>

\* The GET request, the media handler and the notifiers.
ProcessGet(p) ==
    /\ pc[p] = "get"
    /\ Get(mediaHandler, mime[p]).ok
    /\ LET resp == web.get
       IN /\ fetched' = [fetched EXCEPT ![mention[p].id] =
                            Append(@, [method |-> "GET", status |-> resp.status,
                                       body |-> IF resp.err THEN "none" ELSE "open"])]
          /\ Return(p, AfterGet(resp, Get(mediaHandler, mime[p]).handler))
    /\ UNCHANGED <<chanVars, httpVars, acceptedBefore, web, received, senderVars, configVars, conn, server, agg>>

(***************************************************************************)
(* Receiver.ProcessMentions: the worker loop.                              *)
(***************************************************************************)
\* A worker loop that may return at any time it stands at its select.
WorkerStopUnasked(w) ==
    /\ pc[w] = "select"
    /\ pc' = [pc EXCEPT ![w] = "returned"]
    /\ UNCHANGED <<chanVars, httpVars, mention, mime, logVars, acceptedBefore, web, received, senderVars, configVars, conn, server, agg>>

\* select takes the case <-receiver.shutdown.
WorkerStop(w) ==
    /\ pc[w] = "select"
    /\ shutdown
    /\ pc' = [pc EXCEPT ![w] = "returned"]
    /\ UNCHANGED <<chanVars, httpVars, mention, mime, logVars, acceptedBefore, web, received, senderVars, configVars, conn, server, agg>>

\* A receive that leaves the Mention in the channel for the next consumer.
WorkerDequeueLeaves(w) ==
    /\ pc[w] = "select"
    /\ queue # << >>
    /\ mention' = [mention EXCEPT ![w] = Head(queue)]
    /\ pc' = [pc EXCEPT ![w] = "head"]
    /\ UNCHANGED <<queue, enqueueClosed, shutdown, ctxDone, httpVars, mime, logVars,
                   acceptedBefore, web, received, senderVars, configVars, conn, server, agg>>

\* select takes the case <-receiver.dequeue and receives a Mention.
WorkerDequeue(w) ==
    /\ pc[w] = "select"
    /\ queue # << >>
    /\ mention' = [mention EXCEPT ![w] = Head(queue)]
    /\ queue' = Tail(queue)
    /\ pc' = [pc EXCEPT ![w] = "head"]
    /\ UNCHANGED <<enqueueClosed, shutdown, ctxDone, httpVars, mime, logVars,
                   acceptedBefore, web, received, senderVars, configVars, conn, server, agg>>

\* select takes the case <-receiver.dequeue on the closed, empty channel.
WorkerClosed(w) ==
    /\ pc[w] = "select"
    /\ queue = << >>
    /\ enqueueClosed
    /\ pc' = [pc EXCEPT ![w] = "returned"]
    /\ UNCHANGED <<chanVars, httpVars, mention, mime, logVars, acceptedBefore, web, received, senderVars, configVars, conn, server, agg>>

(***************************************************************************)
(* Receiver.Shutdown, run by the goroutine Caller, and its context.        *)
(***************************************************************************)
\* Shutdown is called and runs close(receiver.shutdown).
ShutdownCall ==
    /\ pc[Caller] = "idle"
    /\ shutdown' = TRUE
    /\ acceptedBefore' = { id \in Ids : response[id] = 202 }
    /\ pc' = [pc EXCEPT ![Caller] = "closing"]
    /\ UNCHANGED <<queue, enqueueClosed, ctxDone, httpVars, mention, mime, logVars, web, received, senderVars, configVars, conn, server, agg>>

\* close(receiver.enqueue).
ShutdownCloseEnqueue ==
    /\ pc[Caller] = "closing"
    /\ enqueueClosed' = TRUE
    /\ pc' = [pc EXCEPT ![Caller] = "select"]
    /\ UNCHANGED <<queue, shutdown, ctxDone, httpVars, mention, mime, logVars,
                   acceptedBefore, web, received, senderVars, configVars, conn, server, agg>>

\* select takes the case <-ctx.Done().
ShutdownDeadline ==
    /\ pc[Caller] = "select"
    /\ ctxDone
    /\ pc' = [pc EXCEPT ![Caller] = "returned"]
    /\ UNCHANGED <<chanVars, httpVars, mention, mime, logVars, acceptedBefore, web, received, senderVars, configVars, conn, server, agg>>

\* select takes the case <-receiver.dequeue and receives a Mention.
ShutdownDequeue ==
    /\ pc[Caller] = "select"
    /\ queue # << >>
    /\ mention' = [mention EXCEPT ![Caller] = Head(queue)]
    /\ queue' = Tail(queue)
    /\ pc' = [pc EXCEPT ![Caller] = "head"]
    /\ UNCHANGED <<enqueueClosed, shutdown, ctxDone, httpVars, mime, logVars,
                   acceptedBefore, web, received, senderVars, configVars, conn, server, agg>>

\* select takes the case <-receiver.dequeue on the closed, empty channel.
ShutdownDrained ==
    /\ pc[Caller] = "select"
    /\ queue = << >>
    /\ enqueueClosed
    /\ pc' = [pc EXCEPT ![Caller] = "returned"]
    /\ UNCHANGED <<chanVars, httpVars, mention, mime, logVars, acceptedBefore, web, received, senderVars, configVars, conn, server, agg>>

\* The deadline of the context handed to Shutdown fires.
DeadlineFires ==
    /\ pc[Caller] # "idle"
    /\ ~ctxDone
    /\ ctxDone' = TRUE
    /\ UNCHANGED <<queue, enqueueClosed, shutdown, httpVars, procVars, logVars,
                   acceptedBefore, web, received, senderVars, configVars, conn, server, agg>>

(***************************************************************************)
(* The goroutines of the notifiers.                                        *)
(***************************************************************************)
\* The goroutine started by the i-th "go notifier.Receive(mention)" for the
\* Mention id begins to run: the scheduler picks any goroutine that was
\* started and has not run yet.
NotifierReceive(id, i) ==
    /\ i \in 1..Len(invoked[id])
    /\ \A k \in 1..Len(received[id]) : received[id][k] # i
    /\ received' = [received EXCEPT ![id] = Append(@, i)]
    /\ UNCHANGED <<chanVars, httpVars, procVars, logVars, acceptedBefore, web,
                   senderVars, configVars, conn, server, agg>>

(***************************************************************************)
(* The sender (sender.go): endpoint discovery, Mention, MentionMany and    *)
(* Update.                                                                 *)
(***************************************************************************)
\* A URL value of the sender.  Path holds the path split at "/", so a
\* rooted path starts with the empty segment; a relative reference has an
\* empty Scheme and Host.
SenderURL(scheme, host, path, query) ==
    [Scheme |-> scheme, Host |-> host, Path |-> path, Query |-> query]

\* The nil URL pointer.
NilURL == SenderURL("nil", "", << >>, "")

\* The text of a URL reference in a Link header or an href attribute.
Href(scheme, host, path, query) ==
    [scheme |-> scheme, host |-> host, path |-> path, query |-> query,
     wellformed |-> TRUE]

\* The empty text.
EmptyHref == Href("", "", << >>, "")

\* A text url.Parse rejects.
MalformedHref ==
    [scheme |-> "", host |-> "", path |-> <<"%zz">>, query |-> "", wellformed |-> FALSE]

\* url.Parse on the reference texts: an error for a malformed text, else
\* the URL, its scheme lower-cased.
ParseReference(text) ==
    IF ~text.wellformed THEN [err |-> TRUE, url |-> NilURL]
    ELSE [err |-> FALSE,
          url |-> SenderURL(ToLower(text.scheme), text.host, text.path, text.query)]

\* URL.ResolveReference: an absolute reference stands for itself, the empty
\* reference for the base, a rooted path replaces the path of the base, and
\* a relative path replaces the last segment of the path of the base.
ResolveReference(base, ref) ==
    IF ref.Scheme # "" THEN ref
    ELSE IF ref.Host # "" THEN [ref EXCEPT !.Scheme = base.Scheme]
    ELSE IF ref.Path = << >>
         THEN [base EXCEPT !.Query = IF ref.Query = "" THEN base.Query ELSE ref.Query]
    ELSE IF Head(ref.Path) = ""
         THEN SenderURL(base.Scheme, base.Host, ref.Path, ref.Query)
    ELSE SenderURL(base.Scheme, base.Host,
                   SubSeq(base.Path, 1, Len(base.Path) - 1) \o ref.Path, ref.Query)

\* strings.Split(rel, " ") on the rel values of the model.
Split(rel) ==
    CASE rel = "me WebMention" -> <<"me", "WebMention">>
      [] rel = "" -> <<"">>
      [] OTHER -> <<rel>>

\* The loop over the rel values: some value, lower-cased, is "webmention".
HasRelWebmention(rel) ==
    \E i \in 1..Len(Split(rel)) : ToLower(Split(rel)[i]) = "webmention"

\* One entry of a Link header.
Link(urlText, rel) == [URL |-> urlText, Rel |-> rel]

\* linkheader.ParseMultiple: the entries of the Link headers in header
\* order; an entry without a URL is left out.
RECURSIVE ParseMultiple(_)
ParseMultiple(linkHeaders) ==
    IF linkHeaders = << >> THEN << >>
    ELSE IF Head(linkHeaders).URL = EmptyHref THEN ParseMultiple(Tail(linkHeaders))
    ELSE <<Head(linkHeaders)>> \o ParseMultiple(Tail(linkHeaders))

\* The loop over the parsed Link headers: every entry that carries the
\* relation assigns foundLink (the break leaves the loop over the rel
\* values only).
RECURSIVE FoundLink(_, _)
FoundLink(links, foundLink) ==
    IF links = << >> THEN foundLink
    ELSE FoundLink(Tail(links),
                   IF HasRelWebmention(Head(links).Rel) THEN Head(links).URL
                   ELSE foundLink)

\* An element node of a parsed document.
Node(data, attr, children) == [Data |-> data, Attr |-> attr, Children |-> children]

Attribute(key, val) == [Key |-> key, Val |-> val]

\* The loop of scanForRelLink over the attributes of a node.
RECURSIVE scanAttr(_, _)
scanAttr(attrs, st) ==
    IF attrs = << >> THEN st
    ELSE LET a == Head(attrs)
         IN  scanAttr(Tail(attrs),
                      IF ~st.hasRelVal /\ a.Key = "rel"
                      THEN [st EXCEPT !.hasRelVal = HasRelWebmention(a.Val)]
                      ELSE IF a.Key = "href"
                      THEN [st EXCEPT !.hasHrefVal = TRUE, !.href = a.Val]
                      ELSE st)

\* A scan that does not ask for an href: a node with the rel value and no
\* href yields the empty reference.
scanForRelLinkWithoutHref(node) ==
    LET st == scanAttr(node.Attr,
                       [hasRelVal |-> FALSE, hasHrefVal |-> FALSE, href |-> EmptyHref])
    IN  IF st.hasRelVal
        THEN IF ParseReference(st.href).err
             THEN [url |-> NilURL, err |-> "invalid URL escape"]
             ELSE [url |-> ParseReference(st.href).url, err |-> ""]
        ELSE [url |-> NilURL, err |-> "ErrNoRelWebmention"]

\* scanForRelLink: the parsed href of a node that has the rel value and an
\* href, the parse error of that href, or ErrNoRelWebmention.
scanForRelLink(node) ==
    LET st == scanAttr(node.Attr,
                       [hasRelVal |-> FALSE, hasHrefVal |-> FALSE, href |-> EmptyHref])
    IN  IF st.hasRelVal /\ st.hasHrefVal
        THEN IF ParseReference(st.href).err
             THEN [url |-> NilURL, err |-> "invalid URL escape"]
             ELSE [url |-> ParseReference(st.href).url, err |-> ""]
        ELSE [url |-> NilURL, err |-> "ErrNoRelWebmention"]

\* The closure traverseHtml with the variables it assigns: it returns
\* continue = FALSE as soon as a <link> or <a> has the rel value and an
\* href, and then no further node is visited.
RECURSIVE traverseHtml(_, _)
RECURSIVE traverseChildren(_, _)
\* A traversal that goes on after an <a> with the relation, so that a
\* later <link> is found and takes precedence.
traverseHtmlPrefersLink(node, st) ==
    LET scan == scanForRelLink(node)
    IN  IF node.Data = "link" /\ scan.err = ""
        THEN [st EXCEPT !.firstLinkRel = scan.url, !.continue = FALSE]
        ELSE IF node.Data = "a" /\ scan.err = ""
        THEN traverseChildren(node.Children,
                              IF st.firstARel = NilURL
                              THEN [st EXCEPT !.firstARel = scan.url] ELSE st)
        ELSE IF node.Data \in {"link", "a"} /\ scan.err # "ErrNoRelWebmention"
        THEN [st EXCEPT !.traverseErr = scan.err, !.continue = FALSE]
        ELSE traverseChildren(node.Children, st)

traverseHtml(node, st) ==
    LET scan == scanForRelLink(node)
    IN  IF node.Data = "link" /\ scan.err = ""
        THEN [st EXCEPT !.firstLinkRel = scan.url, !.continue = FALSE]
        ELSE IF node.Data = "a" /\ scan.err = ""
        THEN [st EXCEPT !.firstARel = scan.url, !.continue = FALSE]
        ELSE IF node.Data \in {"link", "a"} /\ scan.err # "ErrNoRelWebmention"
        THEN [st EXCEPT !.traverseErr = scan.err, !.continue = FALSE]
        ELSE traverseChildren(node.Children, st)

\* The loop over the children of a node, in order.
traverseChildren(children, st) ==
    IF children = << >> THEN st
    ELSE LET after == traverseHtml(Head(children), st)
         IN  IF ~after.continue THEN after
             ELSE traverseChildren(Tail(children), after)

\* How a target answers: location is the URL its redirects lead to (NilURL:
\* no redirect), head and get are the answers to HEAD and GET that the
\* client, following the redirects, returns, and post is the answer of the
\* endpoint to the POST.
Page(location, head, get, post) ==
    [location |-> location, head |-> head, get |-> get, post |-> post]

\* The answer to a HEAD: a transport error, or a status and Link headers.
HeadAnswer(err, status, links) == [err |-> err, status |-> status, links |-> links]

\* The answer to a GET: a transport error, or a status and a document.
GetAnswer(err, status, doc) == [err |-> err, status |-> status, doc |-> doc]

\* The answer to a POST: a transport error, or a status.
PostAnswer(err, status) == [err |-> err, status |-> status]

\* What DiscoverEndpoint did: the endpoint and the error it returned (""
\* for nil), whether it panicked, and the requests it sent.
Discovered(endpoint, err, panicked, reqs) ==
    [endpoint |-> endpoint, err |-> err, panic |-> panicked, requests |-> reqs]

HttpRequest(method, url) == [method |-> method, url |-> url]

\* Sender.DiscoverEndpoint.  A HEAD that fails leaves resp nil, and
\* resp.Body is read before err is looked at.  Each request is recorded with
\* the state of the body of its response when the function ends: none when
\* there was no response, closed for the GET (the deferred
\* resp.Body.Close), open for the HEAD, whose body is read and never closed.
DiscoverEndpoint(target, page) ==
    LET head == <<HttpRequest("HEAD", target)
                      @@ [body |-> IF page.head.err THEN "none" ELSE "open"]>>
        both == head \o <<HttpRequest("GET", target)
                              @@ [body |-> IF page.get.err THEN "none" ELSE "closed"]>>
        foundLink == FoundLink(ParseMultiple(page.head.links), EmptyHref)
        st == traverseHtml(page.get.doc,
                           [firstLinkRel |-> NilURL, firstARel |-> NilURL,
                            traverseErr |-> "", continue |-> TRUE])
    IN  IF page.head.err THEN Discovered(NilURL, "", TRUE, head)
        ELSE IF page.head.status < 200 \/ page.head.status >= 300
        THEN Discovered(NilURL, "head returned status", FALSE, head)
        ELSE IF foundLink # EmptyHref
        THEN IF ParseReference(foundLink).err
             THEN Discovered(NilURL, "ErrInvalidRelWebmention", FALSE, head)
             ELSE Discovered(ResolveReference(target, ParseReference(foundLink).url),
                             "", FALSE, head)
        ELSE IF page.get.err THEN Discovered(NilURL, "cannot get target", FALSE, both)
        ELSE IF page.get.status < 200 \/ page.get.status >= 300
        THEN Discovered(NilURL, "get returned status", FALSE, both)
        ELSE IF st.traverseErr # ""
        THEN Discovered(NilURL, "ErrInvalidRelWebmention", FALSE, both)
        ELSE IF st.firstLinkRel # NilURL
        THEN Discovered(ResolveReference(target, st.firstLinkRel), "", FALSE, both)
        ELSE IF st.firstARel # NilURL
        THEN Discovered(ResolveReference(target, st.firstARel), "", FALSE, both)
        ELSE Discovered(NilURL, "ErrNoEndpointFound", FALSE, both)

\* Error values are the chain of messages from the outermost wrapper to
\* the cause; the nil error is the empty chain.
NilError == << >>

\* fmt.Errorf("msg: %w", err).
Wrap(msg, err) == <<msg>> \o err

\* A target handed to the sender: a pointer to a URL (URL = *url.URL).
Target(ptr, name) == [ptr |-> ptr, name |-> name]

\* The URL a target pointer points to.
TargetURL(name) == SenderURL("https", "t", <<"", "test", name>>, "")

\* The URL the redirects of a redirecting target lead to.
RedirectedURL == SenderURL("https", "t", <<"", "redirect">>, "")

SourceURL == SenderURL("https", "s", <<"", "post">>, "")

\* The POST of Mention: the form holds source and target.
PostForm(endpoint, source, target) ==
    [method |-> "POST", url |-> endpoint, source |-> source, target |-> target]

\* What Mention did: the error it returned, whether it panicked, and the
\* requests it sent.
Mentioned(err, panicked, reqs) == [err |-> err, panic |-> panicked, requests |-> reqs]

\* Sender.Mention.  err of PostForm is not looked at: a POST that fails
\* leaves resp nil and resp.StatusCode panics.
SenderMention(source, target, page) ==
    LET d == DiscoverEndpoint(target, page)
        sent == d.requests \o <<PostForm(d.endpoint, source, target)>>
    IN  IF d.panic THEN Mentioned(NilError, TRUE, d.requests)
        ELSE IF d.err # "" THEN Mentioned(Wrap("mention", <<d.err>>), FALSE, d.requests)
        ELSE IF page.post.err THEN Mentioned(NilError, TRUE, sent)
        ELSE IF page.post.status < 200 \/ page.post.status >= 300
        THEN Mentioned(<<"mention", "post form returned status">>, FALSE, sent)
        ELSE Mentioned(NilError, FALSE, sent)

\* errors.Join(err, merr) on the list of the errors joined so far: a nil
\* error is left out, and the join of nil errors only is nil.
Join(joined, merr) == IF merr = NilError THEN joined ELSE Append(joined, merr)

\* Sender.PastTargets: the set of the pointers the Persister returned.  The
\* map pastTargets is the named result, which is never made: the
\* assignment of its first entry panics (assignment to entry in nil map).
PastTargets(persister) ==
    IF persister.err
    THEN [pastTargets |-> {}, err |-> <<"past targets", "persister">>, panic |-> FALSE]
    ELSE IF persister.targets # << >>
    THEN [pastTargets |-> {}, err |-> NilError, panic |-> TRUE]
    ELSE [pastTargets |-> {}, err |-> NilError, panic |-> FALSE]

\* The orders in which a range over a map may yield its keys.
RangeOrders(keys) ==
    { order \in [1..Cardinality(keys) -> keys] :
          \A i, j \in 1..Cardinality(keys) : order[i] = order[j] => i = j }

\* The second loop of Update: the current targets whose pointer is no key
\* of the map, in their order.
RECURSIVE NewTargets(_, _)
NewTargets(currentTargets, pastTargets) ==
    IF currentTargets = << >> THEN << >>
    ELSE IF Head(currentTargets) \in pastTargets
         THEN NewTargets(Tail(currentTargets), pastTargets)
    ELSE <<Head(currentTargets)>> \o NewTargets(Tail(currentTargets), pastTargets)

\* The value a call returned.
Returned(endpoint, err, joined) == [endpoint |-> endpoint, err |-> err, joined |-> joined]

NoResult == Returned(NilURL, NilError, << >>)

\* A call of a method of Sender.
Call(op, targets) == [op |-> op, source |-> SourceURL, targets |-> targets]

NoCall == [op |-> "", source |-> NilURL, targets |-> << >>]

\* The answer of a Persister.
Persisted(err, targets) == [err |-> err, targets |-> targets]

(***************************************************************************)
(* The targets the sender talks to, and the calls made.                    *)
(***************************************************************************)
\* The sequences over S of length at most n.
SeqsUpTo(S, n) == UNION { [1..k -> S] : k \in 0..n }

\* Link header entries: a relative and an absolute endpoint, an entry with
\* another relation, an entry without URL and one with a malformed URL.
LinkEntries ==
    { Link(Href("", "", <<"hdr">>, "head=true"), "webmention"),
      Link(Href("HTTPS", "e", <<"", "abs">>, ""), "me WebMention"),
      Link(Href("", "", <<"", "wrong", "link">>, ""), "whatever"),
      Link(EmptyHref, "webmention"),
      Link(MalformedHref, "webmention") }

\* Elements of a document: <link> and <a> with the rel value and an href,
\* a <link> with the rel value and no href, an <a> with another rel value,
\* a <link> with the rel value and a malformed href, and an <a> nested in a
\* paragraph.
LinkElement ==
    Node("link", <<Attribute("rel", "webmention"),
                   Attribute("href", Href("", "", <<"link">>, ""))>>, << >>)

AElement ==
    Node("a", <<Attribute("href", Href("", "", <<"", "a">>, "")),
                Attribute("rel", "me WebMention")>>, << >>)

Elements ==
    { LinkElement, AElement,
      Node("link", <<Attribute("rel", "webmention")>>, << >>),
      Node("a", <<Attribute("rel", "nofollow"),
                  Attribute("href", Href("", "", <<"", "other">>, ""))>>, << >>),
      Node("link", <<Attribute("rel", "webmention"),
                     Attribute("href", MalformedHref)>>, << >>),
      Node("p", << >>, <<AElement>>) }

\* The documents: up to MaxElems elements below the root.
Documents == { Node("html", << >>, kids) : kids \in SeqsUpTo(Elements, MaxElems) }

EmptyDocument == Node("html", << >>, << >>)

HeadAnswers ==
    { HeadAnswer(TRUE, 0, << >>), HeadAnswer(FALSE, 404, << >>) }
    \cup { HeadAnswer(FALSE, 200, links) : links \in SeqsUpTo(LinkEntries, MaxLinks) }

GetAnswers ==
    { GetAnswer(TRUE, 0, EmptyDocument), GetAnswer(FALSE, 404, EmptyDocument) }
    \cup { GetAnswer(FALSE, 200, doc) : doc \in Documents }

\* Answers to HEAD whose Link headers name no endpoint.
PlainHeadAnswers ==
    { HeadAnswer(FALSE, 200, << >>),
      HeadAnswer(FALSE, 200, <<Link(Href("", "", <<"", "wrong", "link">>, ""), "whatever")>>),
      HeadAnswer(FALSE, 200, <<Link(EmptyHref, "webmention")>>) }

\* Answers to GET with a document of at most one element.
SmallGetAnswers ==
    { GetAnswer(FALSE, 200, EmptyDocument),
      GetAnswer(FALSE, 200, Node("html", << >>, <<LinkElement>>)),
      GetAnswer(FALSE, 200, Node("html", << >>, <<AElement>>)) }

\* The targets of the calls of DiscoverEndpoint, with and without
\* redirect: every answer to HEAD with the small documents, and the
\* answers to HEAD that name no endpoint with every answer to GET.
DiscoverPages ==
    { Page(loc, h, g, PostAnswer(FALSE, 202)) :
          loc \in {NilURL, RedirectedURL}, h \in HeadAnswers, g \in SmallGetAnswers }
    \cup { Page(loc, h, g, PostAnswer(FALSE, 202)) :
          loc \in {NilURL, RedirectedURL}, h \in PlainHeadAnswers, g \in GetAnswers }

\* A target that advertises its endpoint in a Link header, by the answer
\* of the endpoint to the POST.
Advertising(post) ==
    Page(NilURL, HeadAnswer(FALSE, 200, <<Link(Href("", "", <<"", "wm">>, ""), "webmention")>>),
         GetAnswer(FALSE, 200, EmptyDocument), post)

\* A target without endpoint, a target that does not exist, and a target
\* that cannot be reached.
NoEndpointPage ==
    Page(NilURL, HeadAnswer(FALSE, 200, << >>), GetAnswer(FALSE, 200, EmptyDocument),
         PostAnswer(FALSE, 202))

NotFoundPage ==
    Page(NilURL, HeadAnswer(FALSE, 404, << >>), GetAnswer(FALSE, 404, EmptyDocument),
         PostAnswer(FALSE, 202))

UnreachablePage ==
    Page(NilURL, HeadAnswer(TRUE, 0, << >>), GetAnswer(TRUE, 0, EmptyDocument),
         PostAnswer(TRUE, 0))

PostAnswers ==
    { PostAnswer(TRUE, 0) }
    \cup { PostAnswer(FALSE, s) : s \in {199, 200, 201, 202, 204, 299, 300, 400} }

\* The targets of the calls of Mention.
MentionPages ==
    { Advertising(post) : post \in PostAnswers }
    \cup { NoEndpointPage, NotFoundPage, UnreachablePage }

\* The targets of the calls of MentionMany and Update.
ManyPages ==
    { Advertising(PostAnswer(FALSE, 202)), Advertising(PostAnswer(FALSE, 400)),
      Advertising(PostAnswer(TRUE, 0)), NoEndpointPage, UnreachablePage }

TargetNames == {"t1", "t2"}

\* The URL pointers the caller holds (two of them point to equal URLs) and
\* the ones the Persister makes.
CallerTargets == { Target("c1", "t1"), Target("c2", "t2"), Target("c3", "t1") }

PersisterTargets == { Target("p1", "t1"), Target("p2", "t2") }

NoPersister == Persisted(FALSE, << >>)

\* A call with the web and the Persister it runs against.
Scenario(c, s, p) == [call |-> c, site |-> s, persist |-> p]

Scenarios ==
    { Scenario(Call("DiscoverEndpoint", <<Target("c1", "t1")>>),
               [n \in TargetNames |-> page], NoPersister) : page \in DiscoverPages }
    \cup { Scenario(Call("Mention", <<Target("c1", "t1")>>),
                    [n \in TargetNames |-> page], NoPersister) : page \in MentionPages }
    \cup { Scenario(Call("MentionMany", targets), s, NoPersister) :
               targets \in SeqsUpTo(CallerTargets, MaxTargets),
               s \in [TargetNames -> ManyPages] }
    \cup { Scenario(Call("Update", targets), s, p) :
               targets \in SeqsUpTo(CallerTargets, MaxTargets),
               s \in [TargetNames -> ManyPages],
               p \in { Persisted(TRUE, << >>) }
                     \cup { Persisted(FALSE, past) :
                                past \in SeqsUpTo(PersisterTargets, MaxTargets) } }

(***************************************************************************)
(* The calls of the methods of Sender.                                     *)
(***************************************************************************)
\* The nil error of a call, or the error with its cause.
ErrorOf(cause) == IF cause = "" THEN NilError ELSE <<cause>>

\* A call of DiscoverEndpoint.
DiscoverCall ==
    /\ spc = "start"
    /\ call.op = "DiscoverEndpoint"
    /\ LET target == call.targets[1]
           d == DiscoverEndpoint(TargetURL(target.name), site[target.name])
       IN  /\ requests' = requests \o d.requests
           /\ result' = Returned(d.endpoint, ErrorOf(d.err), << >>)
           /\ spc' = IF d.panic THEN "panicked" ELSE "returned"
    /\ UNCHANGED <<call, site, persist, todo, errs, earlier, receiverVars, configVars, conn, server, agg>>

\* A call of Mention.
MentionCall ==
    /\ spc = "start"
    /\ call.op = "Mention"
    /\ LET target == call.targets[1]
           m == SenderMention(call.source, TargetURL(target.name), site[target.name])
       IN  /\ requests' = requests \o m.requests
           /\ result' = Returned(NilURL, m.err, << >>)
           /\ spc' = IF m.panic THEN "panicked" ELSE "returned"
    /\ UNCHANGED <<call, site, persist, todo, errs, earlier, receiverVars, configVars, conn, server, agg>>

\* A call of MentionMany enters its loop.
MentionManyCall ==
    /\ spc = "start"
    /\ call.op = "MentionMany"
    /\ todo' = call.targets
    /\ spc' = "loop"
    /\ UNCHANGED <<call, site, persist, errs, requests, result, earlier, receiverVars, configVars, conn, server, agg>>

\* An Update that sends nothing when Update was called before.
UpdateCallOnlyOnce ==
    /\ spc = "start"
    /\ call.op = "Update"
    /\ LET past == PastTargets(persist)
       IN  IF past.panic
           THEN spc' = "panicked" /\ UNCHANGED <<todo, result>>
           ELSE IF past.err # NilError
           THEN /\ spc' = "returned"
                /\ result' = Returned(NilURL, Wrap("update", past.err), << >>)
                /\ UNCHANGED todo
           ELSE /\ spc' = "loop"
                /\ todo' = IF earlier = << >>
                           THEN NewTargets(call.targets, past.pastTargets)
                           ELSE << >>
                /\ UNCHANGED result
    /\ UNCHANGED <<call, site, persist, errs, requests, earlier, receiverVars, configVars, conn, server, agg>>

\* A call of Update: PastTargets, the two loops that build the list of
\* targets (the range over the map yields its keys in any order), and the
\* call of MentionMany.
UpdateCall ==
    /\ spc = "start"
    /\ call.op = "Update"
    /\ LET past == PastTargets(persist)
       IN  IF past.panic
           THEN spc' = "panicked" /\ UNCHANGED <<todo, result>>
           ELSE IF past.err # NilError
           THEN /\ spc' = "returned"
                /\ result' = Returned(NilURL, Wrap("update", past.err), << >>)
                /\ UNCHANGED todo
           ELSE /\ spc' = "loop"
                /\ \E order \in RangeOrders(past.pastTargets) :
                       todo' = order \o NewTargets(call.targets, past.pastTargets)
                /\ UNCHANGED result
    /\ UNCHANGED <<call, site, persist, errs, requests, earlier, receiverVars, configVars, conn, server, agg>>

\* One round of the loop of MentionMany: Mention for the next target, and
\* its error joined to the others.
MentionManyStep ==
    /\ spc = "loop"
    /\ todo # << >>
    /\ LET target == Head(todo)
           m == SenderMention(call.source, TargetURL(target.name), site[target.name])
       IN  /\ requests' = requests \o m.requests
           /\ IF m.panic
              THEN spc' = "panicked" /\ UNCHANGED <<todo, errs>>
              ELSE /\ errs' = Join(errs, m.err)
                   /\ todo' = Tail(todo)
                   /\ UNCHANGED spc
    /\ UNCHANGED <<call, site, persist, result, earlier, receiverVars, configVars, conn, server, agg>>

\* MentionMany returns the joined error.
MentionManyReturn ==
    /\ spc = "loop"
    /\ todo = << >>
    /\ result' = Returned(NilURL, IF errs = << >> THEN NilError ELSE <<"join">>, errs)
    /\ spc' = "returned"
    /\ UNCHANGED <<call, site, persist, todo, errs, requests, earlier, receiverVars, configVars, conn, server, agg>>

\* Update is called again with the same arguments, the Persister and the
\* targets answering as before (after a panic: by a caller that recovered).
UpdateAgain ==
    /\ call.op = "Update"
    /\ spc \in {"returned", "panicked"}
    /\ earlier = << >>
    /\ earlier' = <<requests>>
    /\ requests' = << >>
    /\ todo' = << >>
    /\ errs' = << >>
    /\ result' = NoResult
    /\ spc' = "start"
    /\ UNCHANGED <<call, site, persist, receiverVars, configVars, conn, server, agg>>

\* No call of the sender is under way.
SenderIdle ==
    /\ call = NoCall
    /\ site = << >>
    /\ persist = NoPersister
    /\ spc = "idle"
    /\ todo = << >>
    /\ errs = << >>
    /\ requests = << >>
    /\ result = NoResult
    /\ earlier = << >>

(***************************************************************************)
(* The configuration of a receiver: NewReceiver applies its                *)
(* WithMediaHandler options to the register of media handlers, and the     *)
(* worker then verifies a source with the handler the register holds for   *)
(* its media type.                                                         *)
(***************************************************************************)
\* An option that registers a handler before the entries, not after them.
WithMediaHandlerInFront(mr, opt) ==
    IF opt.handler = "nil"
    THEN LET named == { i \in 1..Len(mr) : mr[i].name = opt.mime }
             i == CHOOSE j \in named : \A k \in named : j <= k
         IN  IF named = {} THEN mr
             ELSE SubSeq(mr, 1, i - 1) \o SubSeq(mr, i + 1, Len(mr))
    ELSE <<[name |-> opt.mime, qweight |-> opt.qweight, handler |-> opt.handler]>> \o mr

\* WithMediaHandler(mime, qweight, handler) applied to the register mr: a
\* nil handler deletes the first entry named mime, another handler is
\* appended as a new entry.
WithMediaHandler(mr, opt) ==
    IF opt.handler = "nil"
    THEN LET named == { i \in 1..Len(mr) : mr[i].name = opt.mime }
             i == CHOOSE j \in named : \A k \in named : j <= k
         IN  IF named = {} THEN mr
             ELSE SubSeq(mr, 1, i - 1) \o SubSeq(mr, i + 1, Len(mr))
    ELSE Append(mr, [name |-> opt.mime, qweight |-> opt.qweight, handler |-> opt.handler])

\* mediaRegister.String, the value of the Accept header: the entries in
\* their order, separated by commas, an entry of weight 1 by its name and
\* any other with its weight printed with three decimals (weights are
\* counted in tenths).
RECURSIVE RegisterString(_)
RegisterString(mr) ==
    IF mr = << >> THEN << >>
    ELSE LET h == mr[Len(mr)]
             front == SubSeq(mr, 1, Len(mr) - 1)
         IN  RegisterString(front)
             \o (IF front = << >> THEN << >> ELSE <<",">>)
             \o (IF h.qweight = 10 THEN <<h.name>>
                 ELSE <<h.name, ";q=", ToString(h.qweight \div 10), ".",
                        ToString(h.qweight % 10), "00">>)

\* Receiver.PlainHandler: strings.Contains(body, target.String()).  Texts
\* are sequences of pieces; the texts of the model are cut into the same
\* pieces, so one holds the other as a text exactly when it does as a
\* sequence.
PlainHandler(content, target) ==
    LET s == content.text
        substr == String(target)
    IN  IF \E i \in 1..(Len(s) - Len(substr) + 1) :
               SubSeq(s, i, i + Len(substr) - 1) = substr
        THEN StatusLink
        ELSE StatusNoLink

\* Receiver.HtmlHandler: StatusLink when the document holds an <a>, <img>
\* or <video> whose first href equals the target when both are
\* lower-cased.
HtmlHandler(content, target) ==
    LET RECURSIVE traverse(_)
        traverse(node) ==
            LET hrefs == SelectSeq(node.Attr, LAMBDA a : a.Key = "href")
                href == IF hrefs = << >> THEN << >> ELSE hrefs[1].Val
            IN  \/ /\ node.Data \in {"a", "img", "video"}
                   /\ [i \in 1..Len(href) |-> ToLower(href[i])]
                         = [i \in 1..Len(String(target)) |-> ToLower(String(target)[i])]
                \/ \E i \in 1..Len(node.Children) : traverse(node.Children[i])
    IN  IF traverse(content.doc) THEN StatusLink ELSE StatusNoLink

\* The target of the Mentions verified.
VerifiedTarget == Parse(ValidRequest.target[1]).url

\* The bodies of the sources: a text or an HTML document that refers to
\* one URL, which is the target, a longer URL that starts with the target,
\* the target with another letter case in its path, or another URL.  text
\* is the body as bytes, doc what html.Parse makes of it, urls the URLs the
\* source refers to.
SourceBodies ==
    LET Refs == { String(VerifiedTarget),
                  String(VerifiedTarget) \o <<"b">>,
                  <<"http", "://", "h", "/A">>,
                  <<"http", "://", "h", "/b">> }
    IN  { [text |-> <<"see ">> \o ref \o <<" now">>,
           doc |-> Node("html", << >>, << >>),
           urls |-> {ref}] : ref \in Refs }
        \cup { [text |-> <<"<p><", tag, " href=\"">> \o ref \o <<"\"></p>">>,
                doc |-> Node("html", << >>,
                             <<Node("p", << >>,
                                    <<Node(tag, <<Attribute("href", ref)>>, << >>)>>)>>),
                urls |-> {ref}] : ref \in Refs, tag \in {"a", "link"} }
        \cup { [text |-> << >>, doc |-> Node("html", << >>, << >>), urls |-> {}] }

\* No source has been verified.
NotVerified ==
    [accept |-> << >>, mime |-> "", content |-> << >>, handler |-> "nil",
     err |-> "", status |-> ""]

\* NewReceiver applies the next option.
ApplyOption ==
    /\ options # << >>
    /\ register' = WithMediaHandler(register, Head(options))
    /\ applied' = Append(applied, Head(options))
    /\ options' = Tail(options)
    /\ UNCHANGED <<verified, receiverVars, senderVars, conn, server, agg>>

\* processMention for a source of media type m and body content: the
\* Accept header of the HEAD request, the lookup of the handler, and the
\* handler run on the body (a handler of the application finds a link).
VerifySource ==
    /\ options = << >>
    /\ verified = NotVerified
    /\ \E m \in {"text/html", "text/plain", "application/json"}, content \in SourceBodies :
           LET found == Get(register, m)
           IN  verified' =
                   [accept |-> RegisterString(register), mime |-> m, content |-> content,
                    handler |-> found.handler,
                    err |-> IF found.ok THEN "" ELSE "no mime handler registered",
                    status |-> CASE ~found.ok -> ""
                                 [] found.handler = "PlainHandler"
                                      -> PlainHandler(content, VerifiedTarget)
                                 [] found.handler = "HtmlHandler"
                                      -> HtmlHandler(content, VerifiedTarget)
                                 [] OTHER -> StatusLink]
    /\ UNCHANGED <<options, applied, register, receiverVars, senderVars, conn, server, agg>>

\* No receiver is being configured.
ConfigIdle ==
    /\ options = << >>
    /\ applied = << >>
    /\ register = mediaHandler
    /\ verified = NotVerified

(***************************************************************************)
(* The sender daemon: the handler of one connection (cmd/sender).          *)
(***************************************************************************)
\* The request lines of the model: an empty line, a line that is no JSON,
\* and messages of zero to two mention entries, each for a source whose
\* Update ends with nil (https://s/post), with an error (https://s/none) or
\* in a panic (https://s/down, a target that cannot be reached).  long says
\* that the line has more bytes than the Scanner buffers
\* (bufio.MaxScanTokenSize).
RequestLines ==
    LET sources == {"https://s/post", "https://s/none", "https://s/down"}
    IN  { [text |-> t, mentions |-> << >>, long |-> FALSE] : t \in {"", "garbage"} }
        \cup { [text |-> "json", mentions |-> m, long |-> FALSE] :
                   m \in {<< >>} \cup { <<a>> : a \in sources }
                                 \cup { <<a, b>> : a, b \in sources } }
        \cup { [text |-> "json", mentions |-> <<"https://s/post">>, long |-> TRUE] }

\* handleRequest(message): the response, the error, and whether an Update
\* called for one of the entries panicked.
handleRequest(message) ==
    LET boredom == "boredom: you didn't give me anything to do"
        Update(source) == CASE source = "https://s/post" -> "nil"
                             [] source = "https://s/none" -> "update: cannot send"
                             [] OTHER -> "panic"
        reached == { i \in 1..Len(message.mentions) :
                         \A j \in 1..(i - 1) : Update(message.mentions[j]) # "panic" }
        statuses == [i \in reached |->
                        [source |-> message.mentions[i],
                         error |-> IF Update(message.mentions[i]) = "nil"
                                   THEN "" ELSE Update(message.mentions[i])]]
    IN  CASE message.text = ""
               -> [resp |-> [statuses |-> << >>, error |-> ""], err |-> boredom,
                   panicked |-> FALSE]
          [] message.text # "json"
               -> [resp |-> [statuses |-> << >>, error |-> ""], err |-> "invalid message",
                   panicked |-> FALSE]
          [] message.mentions = << >>
               -> [resp |-> [statuses |-> << >>, error |-> ""], err |-> boredom,
                   panicked |-> FALSE]
          [] OTHER
               -> [resp |-> [statuses |-> statuses, error |-> ""], err |-> "",
                   panicked |-> \E i \in reached : Update(message.mentions[i]) = "panic"]

\* The client writes one more request line to the connection.
ClientSend(line) ==
    /\ ~conn.eof
    /\ conn.state = "open"
    /\ Len(conn.sent) < MaxLines
    /\ conn' = [conn EXCEPT !.sent = Append(@, line)]
    /\ UNCHANGED <<receiverVars, senderVars, configVars, server, agg>>

\* The client closes its end of the connection.
ClientClose ==
    /\ ~conn.eof
    /\ conn' = [conn EXCEPT !.eof = TRUE]
    /\ UNCHANGED <<receiverVars, senderVars, configVars, server, agg>>

\* One round of the loop of handle(conn): Scan, handleRequest, Marshal and Write.
\* Scan is false on a line longer than its buffer and at the end of the
\* input, and handle returns and closes the connection; a panic of Update
\* is recovered nowhere and ends the daemon.
handleConn ==
    /\ conn.state = "open"
    /\ IF conn.read < Len(conn.sent)
       THEN LET line == conn.sent[conn.read + 1]
                out == handleRequest(line)
            IN  conn' =
                    IF line.long
                    THEN [conn EXCEPT !.read = @ + 1, !.state = "closed"]
                    ELSE IF out.panicked
                    THEN [conn EXCEPT !.read = @ + 1, !.state = "crashed"]
                    ELSE [conn EXCEPT !.read = @ + 1,
                                      !.written = Append(@, [out.resp EXCEPT !.error = out.err])]
       ELSE /\ conn.eof
            /\ conn' = [conn EXCEPT !.state = "closed"]
    /\ UNCHANGED <<receiverVars, senderVars, configVars, server, agg>>

\* A connection just accepted.
DaemonIdle ==
    conn = [sent |-> << >>, read |-> 0, written |-> << >>, eof |-> FALSE, state |-> "open"]

(***************************************************************************)
(* The mentionee daemon (cmd/mentionee/main.go): the HTTP server that      *)
(* runs the handler, and doShutdown.                                       *)
(***************************************************************************)
\* The server listening, no handler running; the aggregator just built:
\* nothing pending, the mutex free, lastSentTime the zero time.
MentioneeIdle ==
    /\ server = [state |-> "serving", running |-> {}]
    /\ agg = [Todos |-> << >>, lock |-> "free", lastSentTime |-> 0,
              sent |-> << >>, handed |-> {},
              pc |-> [p \in {"Send", "Start", "Shutdown"} |-> "idle"]]

\* The server accepts a request and starts the handler for it; the handler
\* reads and parses the request before it reaches its enqueue step.
HandlerBegin(r) ==
    /\ server.state = "serving"
    /\ nextReq < MaxRequests
    /\ nextReq' = nextReq + 1
    /\ server' = [server EXCEPT !.running = @ \cup {[id |-> nextReq + 1, r |-> r]}]
    /\ UNCHANGED <<chanVars, response, panics, procVars, logVars, acceptedBefore,
                   web, received, senderVars, configVars, conn, agg>>

\* A running handler runs receiver.handle to its end and answers.
HandlerEnd(e) ==
    /\ e \in server.running
    /\ LET res == handle(e.r, e.id, queue, enqueueClosed)
       IN  /\ queue' = IF res.sent THEN Append(queue, res.mention) ELSE queue
           /\ panics' = IF res.panic THEN panics \cup {e.id} ELSE panics
           /\ response' = [response EXCEPT ![e.id] = Answered(res)]
    /\ server' = [server EXCEPT !.running = @ \ {e}]
    /\ UNCHANGED <<enqueueClosed, shutdown, ctxDone, nextReq, procVars, logVars,
                   acceptedBefore, web, received, senderVars, configVars, conn, agg>>

\* doShutdown calls server.Shutdown(shutdownCtx): the listeners close, no
\* new handler starts, and Shutdown waits for the running handlers.
DoShutdown ==
    /\ server.state = "serving"
    /\ server' = [server EXCEPT !.state = "shutdown"]
    /\ UNCHANGED <<receiverVars, senderVars, configVars, conn, agg>>

\* The deadline of shutdownCtx fires while server.Shutdown waits.
ShutdownTimeout ==
    /\ server.state = "shutdown"
    /\ ~ctxDone
    /\ ctxDone' = TRUE
    /\ UNCHANGED <<queue, enqueueClosed, shutdown, httpVars, procVars, logVars,
                   acceptedBefore, web, received, senderVars, configVars, conn,
                   server, agg>>

\* server.Shutdown returns: nil when no handler is running any more, the
\* error of the context when its deadline fired; doShutdown logs the error
\* and goes on.
ServerShutdownReturns ==
    /\ server.state = "shutdown"
    /\ server.running = {} \/ ctxDone
    /\ server' = [server EXCEPT !.state = "stopped"]
    /\ UNCHANGED <<receiverVars, senderVars, configVars, conn, agg>>

\* doShutdown calls receiver.Shutdown(shutdownCtx) after server.Shutdown
\* returned.
ReceiverShutdown ==
    /\ server.state = "stopped"
    /\ ShutdownCall

(***************************************************************************)
(* ReportAggregator (listener/mail.go): Send, called by the goroutines of  *)
(* the notifier Mailer; Start, the periodic tick; and SendNow, which Send  *)
(* and Start call with the mutex held and doShutdown calls without it.     *)
(* agg.sent lists the batches the underlying Sender delivered, agg.handed  *)
(* the Mentions handed to Send so far, agg.pc where each caller stands.    *)
(***************************************************************************)
\* Send(mentions) of a notifier goroutine: it takes the mutex, appends to
\* Todos and, when the time since lastSentTime reached SendAfterTime (as it
\* has while lastSentTime is the zero time) or the count was reached, goes
\* on into SendNow; else it returns nil and the deferred Unlock runs.
AggregatorSend(id) ==
    /\ id \notin agg.handed
    /\ agg.pc["Send"] = "idle"
    /\ agg.lock = "free"
    /\ \E due \in IF agg.lastSentTime = 0 THEN {TRUE} ELSE BOOLEAN :
           agg' = [agg EXCEPT !.Todos = Append(@, id),
                              !.handed = @ \cup {id},
                              !.lock = IF due THEN "Send" ELSE "free",
                              !.pc["Send"] = IF due THEN "sendnow" ELSE "idle"]
    /\ UNCHANGED <<receiverVars, senderVars, configVars, conn, server>>

\* A tick of Start: TryLock succeeds and SendNow is called.
AggregatorStart ==
    /\ agg.pc["Start"] = "idle"
    /\ agg.lock = "free"
    /\ agg' = [agg EXCEPT !.lock = "Start", !.pc["Start"] = "sendnow"]
    /\ UNCHANGED <<receiverVars, senderVars, configVars, conn, server>>

\* doShutdown calls aggregator.SendNow(), without the mutex, while the
\* goroutines of the notifiers and of Start may still be running.
AggregatorShutdown ==
    /\ agg.pc["Shutdown"] = "idle"
    /\ agg' = [agg EXCEPT !.pc["Shutdown"] = "sendnow"]
    /\ UNCHANGED <<receiverVars, senderVars, configVars, conn, server>>

\* SendNow up to the return of m.Sender.Send(m.Todos): nothing to do for
\* empty Todos; a failed delivery returns the error and leaves Todos; a
\* successful one has delivered the Todos it was called with.
SendNowDeliver(p) ==
    /\ agg.pc[p] = "sendnow"
    /\ \E ok \in BOOLEAN :
           IF agg.Todos # << >> /\ ok
           THEN agg' = [agg EXCEPT !.sent = Append(@, agg.Todos),
                                   !.pc[p] = "clear"]
           ELSE agg' = [agg EXCEPT !.pc[p] = IF p = "Shutdown" THEN "done" ELSE "idle",
                                   !.lock = IF @ = p THEN "free" ELSE @]
    /\ UNCHANGED <<receiverVars, senderVars, configVars, conn, server>>

\* SendNow after the delivery: m.Todos = nil, lastSentTime = time.Now(),
\* return nil; the caller that holds the mutex unlocks it.
SendNowClear(p) ==
    /\ agg.pc[p] = "clear"
    /\ agg' = [agg EXCEPT !.Todos = << >>,
                          !.lastSentTime = 1,
                          !.pc[p] = IF p = "Shutdown" THEN "done" ELSE "idle",
                          !.lock = IF @ = p THEN "free" ELSE @]
    /\ UNCHANGED <<receiverVars, senderVars, configVars, conn, server>>

(***************************************************************************)
(* The receiver after NewReceiver, with the worker loops started.          *)
(***************************************************************************)
ReceiverInit ==
    /\ queue = << >>
    /\ enqueueClosed = FALSE
    /\ shutdown = FALSE
    /\ ctxDone = FALSE
    /\ nextReq = 0
    /\ response = [id \in Ids |-> 0]
    /\ panics = {}
    /\ pc = [p \in Procs |-> IF p = Caller THEN "idle" ELSE "select"]
    /\ mention = [p \in Procs |-> NoMention]
    /\ mime = [p \in Procs |-> ""]
    /\ fetched = [id \in Ids |-> << >>]
    /\ assigned = [id \in Ids |-> << >>]
    /\ invoked = [id \in Ids |-> << >>]
    /\ reported = [id \in Ids |-> << >>]
    /\ acceptedBefore = {}
    /\ received = [id \in Ids |-> << >>]
    /\ web \in Sources
    /\ MentioneeIdle

Init == ReceiverInit /\ SenderIdle /\ ConfigIdle /\ DaemonIdle

Next ==
    \/ \E r \in Requests : ServeHTTP(r)
    \/ \E w \in Workers : WorkerStop(w)
    \/ \E w \in Workers : WorkerDequeue(w)
    \/ \E w \in Workers : WorkerClosed(w)
    \/ \E p \in Procs : ProcessHead(p)
    \/ \E p \in Procs : ProcessNoHandler(p)
    \/ \E p \in Procs : ProcessGet(p)
    \/ ShutdownCall
    \/ ShutdownCloseEnqueue
    \/ ShutdownDeadline
    \/ ShutdownDequeue
    \/ ShutdownDrained
    \/ DeadlineFires

Spec == Init /\ [][Next]_vars

\* The worker loops and Shutdown, with the requests that pass the checks of
\* the handler.
DrainNext ==
    \/ \E r \in ValidRequests : ServeHTTP(r)
    \/ \E w \in Workers : WorkerStop(w)
    \/ \E w \in Workers : WorkerDequeue(w)
    \/ \E w \in Workers : WorkerClosed(w)
    \/ \E p \in Procs : ProcessHead(p)
    \/ \E p \in Procs : ProcessNoHandler(p)
    \/ \E p \in Procs : ProcessGet(p)
    \/ ShutdownCall
    \/ ShutdownCloseEnqueue
    \/ ShutdownDeadline
    \/ ShutdownDequeue
    \/ ShutdownDrained
    \/ DeadlineFires

\* The receiver with one source for each way through processMention: left
\* after the HEAD, left at the handler lookup, and run to the notifiers.
FairInit ==
    /\ Init
    /\ web.get = GetResponse(200, "links")
    /\ web.head \in { HeadResponse(200, HtmlContent),
                      HeadResponse(200, ContentType("application/json", "")),
                      HeadResponse(410, HtmlContent) }

\* The receiver under a fair scheduler: the requests processMention sends
\* are answered, so a worker that is processing a Mention goes on; and a
\* select chooses at random among the cases that are ready, so a worker
\* that finds the closed shutdown channel ready again and again takes that
\* case in the end.
FairSpec ==
    /\ FairInit
    /\ [][DrainNext]_vars
    /\ \A w \in Workers :
           /\ WF_vars(ProcessHead(w) \/ ProcessNoHandler(w) \/ ProcessGet(w))
           /\ SF_vars(WorkerStop(w))

\* The mentionee daemon: handlers started by the server, the worker loops,
\* and doShutdown.
MentioneeNext ==
    \/ \E r \in Requests : HandlerBegin(r)
    \/ \E id \in Ids : \E r \in Requests : HandlerEnd([id |-> id, r |-> r])
    \/ DoShutdown
    \/ ShutdownTimeout
    \/ ServerShutdownReturns
    \/ ReceiverShutdown
    \/ ShutdownCloseEnqueue
    \/ ShutdownDeadline
    \/ ShutdownDequeue
    \/ ShutdownDrained
    \/ DeadlineFires
    \/ \E w \in Workers : WorkerStop(w)
    \/ \E w \in Workers : WorkerDequeue(w)
    \/ \E w \in Workers : WorkerClosed(w)
    \/ \E p \in Procs : ProcessHead(p)
    \/ \E p \in Procs : ProcessNoHandler(p)
    \/ \E p \in Procs : ProcessGet(p)

MentioneeSpec == FairInit /\ [][MentioneeNext]_vars

\* The aggregator of the mentionee daemon with its three kinds of callers.
AggregatorNext ==
    \/ \E id \in Ids : AggregatorSend(id)
    \/ AggregatorStart
    \/ AggregatorShutdown
    \/ \E p \in {"Send", "Start", "Shutdown"} : SendNowDeliver(p)
    \/ \E p \in {"Send", "Start", "Shutdown"} : SendNowClear(p)

AggregatorSpec == Init /\ [][AggregatorNext]_vars

(***************************************************************************)
(* The sender at the start of one call, with the receiver at rest.         *)
(***************************************************************************)
SenderInit ==
    /\ ReceiverInit
    /\ web = [head |-> HeadResponse(200, HtmlContent), get |-> GetResponse(200, "links")]
    /\ \E s \in Scenarios :
           /\ call = s.call
           /\ site = s.site
           /\ persist = s.persist
    /\ spc = "start"
    /\ todo = << >>
    /\ errs = << >>
    /\ requests = << >>
    /\ result = NoResult
    /\ earlier = << >>
    /\ ConfigIdle
    /\ DaemonIdle

SenderNext ==
    \/ DiscoverCall
    \/ MentionCall
    \/ MentionManyCall
    \/ UpdateCall
    \/ MentionManyStep
    \/ MentionManyReturn
    \/ UpdateAgain

SenderSpec == SenderInit /\ [][SenderNext]_vars

(***************************************************************************)
(* The receiver at work, without Shutdown: requests that pass the checks   *)
(* of the handler, the worker loops, and the goroutines of the notifiers.  *)
(***************************************************************************)
NotifyNext ==
    \/ \E r \in ValidRequests : ServeHTTP(r)
    \/ \E w \in Workers : WorkerDequeue(w)
    \/ \E p \in Workers : ProcessHead(p)
    \/ \E p \in Workers : ProcessNoHandler(p)
    \/ \E p \in Workers : ProcessGet(p)
    \/ \E id \in Ids : \E i \in 1..Len(notifiers) : NotifierReceive(id, i)

NotifySpec == Init /\ [][NotifyNext]_vars

\* The same under a fair scheduler: a worker at its select with a Mention
\* in the queue receives it, the requests processMention sends are
\* answered, and every goroutine that was started gets to run.
FairNotifySpec ==
    /\ NotifySpec
    /\ \A w \in Workers :
           /\ WF_vars(WorkerDequeue(w))
           /\ WF_vars(ProcessHead(w) \/ ProcessNoHandler(w) \/ ProcessGet(w))
    /\ \A id \in Ids : \A i \in 1..Len(notifiers) : WF_vars(NotifierReceive(id, i))

(***************************************************************************)
(* NewReceiver with a list of WithMediaHandler options, followed by the    *)
(* verification of one source.                                             *)
(***************************************************************************)
ConfigInit ==
    /\ ReceiverInit
    /\ web = [head |-> HeadResponse(200, HtmlContent), get |-> GetResponse(200, "links")]
    /\ SenderIdle
    /\ options \in SeqsUpTo([mime : {"text/html", "application/json"},
                             qweight : {5, 10},
                             handler : {"nil", "h1", "h2"}], MaxOptions)
    /\ applied = << >>
    /\ register = mediaHandler
    /\ verified = NotVerified
    /\ DaemonIdle

ConfigNext ==
    \/ ApplyOption
    \/ VerifySource

ConfigSpec == ConfigInit /\ [][ConfigNext]_vars

(***************************************************************************)
(* The sender daemon serving one connection.                               *)
(***************************************************************************)
DaemonNext ==
    \/ \E line \in RequestLines : ClientSend(line)
    \/ ClientClose
    \/ handleConn

DaemonSpec == Init /\ [][DaemonNext]_vars

(***************************************************************************)
(* Properties.                                                             *)
(***************************************************************************)
\* The Mentions in the queue.
Queued == { queue[i] : i \in 1..Len(queue) }

\* The Mentions a goroutine is processing.
InFlight == { mention[p] : p \in Procs } \ {NoMention}

\* The Mentions handed to a notifier.
Notified ==
    UNION { { invoked[id][i].mention : i \in 1..Len(invoked[id]) } : id \in Ids }

\* processMention has returned for the Mention and its error went to Report.
Completed(id) == reported[id] # << >>

\* The notifiers started for the Mention, in the order of the calls.
NotifiersOf(id) == [i \in 1..Len(invoked[id]) |-> invoked[id][i].notifier]

\* The Mention was answered by its source's HEAD with this status.
HeadAnswered(id, status) ==
    /\ fetched[id] # << >>
    /\ fetched[id][1].method = "HEAD"
    /\ fetched[id][1].status = status

\* A GET was sent to the source of the Mention.
GetSent(id) == \E i \in 1..Len(fetched[id]) : fetched[id][i].method = "GET"

\* Shutdown has returned.
ShutdownReturned == pc[Caller] = "returned"

\* This step is a handler invocation; it handles request nextReq'.
HandlerStep == nextReq' # nextReq

(* C1: if Shutdown returns before the deadline of its context has fired,      *)
(* every Mention answered 202 before Shutdown was called has been processed   *)
(* completely, also one a worker had dequeued and was still processing.       *)
C1_ShutdownCompletesAccepted ==
    (ShutdownReturned /\ ~ctxDone) => \A id \in acceptedBefore : Completed(id)

\* One non-nil error went to Report and no notifier was started.
C2_ErrorOutcome(id) ==
    /\ Len(reported[id]) = 1 /\ reported[id][1] # ""
    /\ invoked[id] = << >>

\* Every notifier was started once, in order, and Report got a nil error.
C2_NotifiedOutcome(id) ==
    /\ reported[id] = << "" >>
    /\ NotifiersOf(id) = notifiers
    /\ \A i \in 1..Len(invoked[id]) : invoked[id][i].mention.id = id

(* C2: for every Mention a worker dequeued, once it is processed exactly one  *)
(* holds: a non-nil error was reported and no notifier was started, or every  *)
(* notifier was started exactly once and no non-nil error was reported; never *)
(* both.  Fetch errors, a media type without handler and handler errors lead  *)
(* to the first outcome.                                                      *)
C2_ReportXorNotify ==
    \A id \in Ids :
        /\ ~Completed(id) => invoked[id] = << >>
        /\ Completed(id) => (C2_ErrorOutcome(id) \/ C2_NotifiedOutcome(id))
        /\ ~(C2_ErrorOutcome(id) /\ C2_NotifiedOutcome(id))
        /\ (Completed(id) /\ \E i \in 1..Len(fetched[id]) : fetched[id][i].status = 0)
              => C2_ErrorOutcome(id)
        /\ (Completed(id) /\ HeadAnswered(id, 200)
              /\ ~ParseMediaType(web.head.contentType).err
              /\ ~Get(mediaHandler, ParseMediaType(web.head.contentType).mediaType).ok)
              => C2_ErrorOutcome(id)
        /\ (Completed(id) /\ GetSent(id) /\ ~web.get.err /\ web.get.body = "unreadable")
              => C2_ErrorOutcome(id)

C2_Witness ==
    \E id \in Ids : Completed(id) /\ GetSent(id) /\ C2_NotifiedOutcome(id)

(* C3: a request answered with a status other than 202 adds no Mention to    *)
(* the queue and no notifier is ever started for it; a Mention is enqueued    *)
(* only for a request answered 202.                                           *)
C3_RejectedNeverEnqueued ==
    \A id \in Ids :
        response[id] # 202 =>
            /\ \A m \in Queued \cup InFlight : m.id # id
            /\ fetched[id] = << >>
            /\ invoked[id] = << >>
            /\ reported[id] = << >>

C3_Witness ==
    \E i, j \in Ids :
        /\ response[i] = 400
        /\ response[j] = 202 /\ invoked[j] # << >>

\* What the handler does with a valid request r while the queue is open.
C4_ValidRequestStep(r) ==
    (~enqueueClosed /\ ServeHTTP(r)) =>
        IF Len(queue) >= QueueSize
        THEN response'[nextReq'] = 429 /\ queue' = queue
        ELSE /\ response'[nextReq'] = 202
             /\ Len(queue') = Len(queue) + 1
             /\ queue'[Len(queue')].id = nextReq'
             /\ SubSeq(queue', 1, Len(queue)) = queue

(* C4: the queue never holds more than QueueSize Mentions; a valid request    *)
(* that finds the queue full is answered 429 and leaves the queue as it is;   *)
(* a valid request that finds a free slot is answered 202 and its Mention is  *)
(* appended.                                                                  *)
C4_BoundedQueue ==
    /\ [](Len(queue) <= QueueSize)
    /\ [][HandlerStep => \A r \in ValidRequests : C4_ValidRequestStep(r)]_vars

C4_Witness ==
    \E i, j \in Ids :
        /\ i < j /\ response[i] = 202 /\ response[j] = 429
        /\ Len(queue) = QueueSize

(* C5: Shutdown returns only when the queue is drained or the deadline has    *)
(* fired, and once the deadline has fired it returns without starting to      *)
(* process another queued Mention.                                            *)
C5_ReturnsAtFirstEvent ==
    [][/\ (pc[Caller] # "returned" /\ pc'[Caller] = "returned")
             => (queue = << >> \/ ctxDone)
       /\ (ctxDone /\ pc[Caller] = "select") => pc'[Caller] # "head"]_vars

C7_GoneIsDeleted ==
    \A id \in Ids :
        HeadAnswered(id, 410) =>
            /\ assigned[id] = << StatusDeleted >>
            /\ NotifiersOf(id) = notifiers
            /\ \A i \in 1..Len(invoked[id]) :
                   invoked[id][i].mention.Status = StatusDeleted
            /\ ~GetSent(id)
            /\ reported[id] = << "" >>

C7_Witness ==
    \E id \in Ids : HeadAnswered(id, 410) /\ Len(invoked[id]) = Len(notifiers)

(* C8: for every HEAD status outside 200..299 other than 410 the worker       *)
(* reports SourceNotFound, sends no GET and starts no notifier.               *)
C8_NotFoundOutside2xx ==
    \A id \in Ids :
        \A status \in { web.head.status } :
            (/\ ~web.head.err
             /\ HeadAnswered(id, status)
             /\ (status < 200 \/ status >= 300)
             /\ status # 410)
            => /\ reported[id] = << "ErrSourceNotFound" >>
               /\ ~GetSent(id)
               /\ invoked[id] = << >>

(* C9: a Mention is enqueued with status NoLink; the worker assigns its       *)
(* status once, to Link, NoLink or Deleted, before any notifier is started    *)
(* with it, and all notifiers of the Mention get the same status.             *)
C9_StatusSetOnce ==
    /\ \A m \in Queued : m.Status = StatusNoLink
    /\ \A id \in Ids :
          /\ Len(assigned[id]) <= 1
          /\ invoked[id] # << >> =>
                /\ Len(assigned[id]) = 1
                /\ assigned[id][1] \in {StatusLink, StatusNoLink, StatusDeleted}
                /\ \A i \in 1..Len(invoked[id]) :
                       invoked[id][i].mention.Status = assigned[id][1]

C9_Witness ==
    \E id \in Ids :
        /\ Len(invoked[id]) = Len(notifiers)
        /\ assigned[id] = << StatusLink >>

(* C10: every Mention in the queue or handed to a notifier has a source       *)
(* different from its target and both URLs with scheme http or https.         *)
C10_DistinctHttpURLs ==
    \A m \in Queued \cup Notified :
        /\ String(m.Source) # String(m.Target)
        /\ SchemeSupported(m.Source)
        /\ SchemeSupported(m.Target)

(***************************************************************************)
(* Properties of the sender.                                               *)
(***************************************************************************)
\* The target of a call of DiscoverEndpoint or Mention, how it answers, and
\* the URL reached after its redirects.
TheTarget == TargetURL(call.targets[1].name)
ThePage == site[call.targets[1].name]
FinalURL == IF ThePage.location = NilURL THEN TheTarget ELSE ThePage.location

\* A call of DiscoverEndpoint has ended, by a return or by a panic.
DiscoverDone == call.op = "DiscoverEndpoint" /\ spc \in {"returned", "panicked"}
DiscoverReturned == call.op = "DiscoverEndpoint" /\ spc = "returned"

\* The target answered the HEAD, or the GET, with a 2xx status.
HeadOK == ~ThePage.head.err /\ ThePage.head.status \in 200..299
GetOK == ~ThePage.get.err /\ ThePage.get.status \in 200..299

\* A GET was sent.
GetIssued == \E i \in 1..Len(requests) : requests[i].method = "GET"

\* The Link header entries that carry the webmention relation, by position.
WebmentionLinks ==
    { i \in 1..Len(ThePage.head.links) : HasRelWebmention(ThePage.head.links[i].Rel) }

\* The URL a reference text stands for, resolved against base.
Resolved(base, text) == ResolveReference(base, ParseReference(text).url)

\* The nodes of a document in depth-first order.
RECURSIVE PreOrder(_)
RECURSIVE PreOrderAll(_)
PreOrder(node) == <<node>> \o PreOrderAll(node.Children)
PreOrderAll(children) ==
    IF children = << >> THEN << >>
    ELSE PreOrder(Head(children)) \o PreOrderAll(Tail(children))

\* The node is a <link> or <a> with the rel token webmention and an href.
IsWebmentionElement(node) ==
    /\ node.Data \in {"link", "a"}
    /\ \E i \in 1..Len(node.Attr) :
           node.Attr[i].Key = "rel" /\ HasRelWebmention(node.Attr[i].Val)
    /\ \E i \in 1..Len(node.Attr) : node.Attr[i].Key = "href"

\* The text of the href attribute of a node.
HrefOf(node) ==
    node.Attr[CHOOSE i \in 1..Len(node.Attr) : node.Attr[i].Key = "href"].Val

\* The <link> and <a> elements of the document of the target that carry
\* the relation and an href, in document order.
WebmentionElements == SelectSeq(PreOrder(ThePage.get.doc), IsWebmentionElement)

\* The call returned this endpoint, resolved against the URL passed or the
\* URL reached.
ReturnedEndpoint(text) ==
    /\ spc = "returned"
    /\ result.err = NilError
    /\ result.endpoint \in { Resolved(TheTarget, text), Resolved(FinalURL, text) }

(* C11: when a Link header entry of the HEAD response carries the webmention  *)
(* relation, DiscoverEndpoint returns the URL of such an entry, resolved,     *)
(* whatever the document holds, and sends no GET.                             *)
C11_LinkHeaderWins ==
    (/\ DiscoverDone
     /\ HeadOK
     /\ WebmentionLinks # {}
     /\ \A i \in WebmentionLinks : ThePage.head.links[i].URL.wellformed)
    => /\ \E i \in WebmentionLinks : ReturnedEndpoint(ThePage.head.links[i].URL)
       /\ ~GetIssued

\* The case of C12: no Link header entry carries the relation, and the
\* document holds an <a> and a <link> with the relation and an href, the
\* href of every such element being one that parses.
C12_BothInDocument ==
    /\ DiscoverDone
    /\ HeadOK /\ WebmentionLinks = {}
    /\ GetOK
    /\ \E i \in 1..Len(WebmentionElements) : WebmentionElements[i].Data = "a"
    /\ \E i \in 1..Len(WebmentionElements) : WebmentionElements[i].Data = "link"
    /\ \A i \in 1..Len(WebmentionElements) : HrefOf(WebmentionElements[i]).wellformed

\* The first <link> of the document that carries the relation and an href.
FirstLinkElement ==
    WebmentionElements[CHOOSE i \in 1..Len(WebmentionElements) :
                           /\ WebmentionElements[i].Data = "link"
                           /\ \A j \in 1..(i - 1) : WebmentionElements[j].Data # "link"]

(* C12: with no endpoint in the Link headers and both an <a> and a <link>     *)
(* with the relation in the document, DiscoverEndpoint returns the URL of     *)
(* the <link>, also when the <a> comes earlier.                               *)
C12_LinkBeforeA ==
    C12_BothInDocument => ReturnedEndpoint(HrefOf(FirstLinkElement))

(* C12, amended: with no endpoint in the Link headers and both an <a> and a   *)
(* <link> with the relation in the document, DiscoverEndpoint returns the     *)
(* URL of the one that comes first in the document: the URL of the <a> when   *)
(* the <a> comes earlier, the URL of the <link> when the <link> does.         *)
C12_FirstOfBoth ==
    C12_BothInDocument =>
        /\ ReturnedEndpoint(HrefOf(WebmentionElements[1]))
        /\ (WebmentionElements[1].Data = "a"
               /\ HrefOf(FirstLinkElement) # HrefOf(WebmentionElements[1]))
           => ~ReturnedEndpoint(HrefOf(FirstLinkElement))

C12_Witness ==
    /\ C12_BothInDocument
    /\ spc = "returned"
    /\ WebmentionElements[1].Data = "a"
    /\ result.endpoint = Resolved(TheTarget, HrefOf(AElement))

(* C13: with no endpoint in the Link headers, DiscoverEndpoint returns the    *)
(* href of the first element, in depth-first order, among the <link> and <a>  *)
(* elements with the rel token webmention and an href; elements without href  *)
(* or without the token are skipped, and elements after the first one found   *)
(* play no part.                                                              *)
C13_FirstElementInOrder ==
    (DiscoverDone /\ HeadOK /\ WebmentionLinks = {} /\ GetOK)
    => /\ (WebmentionElements # << >> /\ HrefOf(WebmentionElements[1]).wellformed)
             => ReturnedEndpoint(HrefOf(WebmentionElements[1]))
       /\ WebmentionElements = << >> => result.endpoint = NilURL

C13_Witness ==
    /\ DiscoverReturned /\ HeadOK /\ WebmentionLinks = {} /\ GetOK
    /\ Len(ThePage.get.doc.Children) >= 2
    /\ ~IsWebmentionElement(ThePage.get.doc.Children[1])
    /\ ThePage.get.doc.Children[1].Data = "link"
    /\ WebmentionElements # << >>
    /\ result.endpoint = Resolved(TheTarget, HrefOf(WebmentionElements[1]))

\* The texts of the URLs the target advertises, in its Link headers and in
\* its document.
AdvertisedTexts ==
    { ThePage.head.links[i].URL : i \in WebmentionLinks }
    \cup { HrefOf(WebmentionElements[i]) : i \in 1..Len(WebmentionElements) }

(* C14: when the target redirects, the endpoint returned is a reference the   *)
(* target advertises resolved against the URL reached after the redirects.    *)
C14_ResolvedAgainstFinalURL ==
    (DiscoverReturned /\ result.err = NilError /\ ThePage.location # NilURL)
    => \E text \in AdvertisedTexts :
           text.wellformed /\ result.endpoint = Resolved(FinalURL, text)

\* The Link header entries with the relation and a URL, by position.
HeaderLinks ==
    { i \in WebmentionLinks : ThePage.head.links[i].URL # EmptyHref }

\* The least and the greatest element of a set of numbers.
Min(S) == CHOOSE i \in S : \A j \in S : i <= j
Max(S) == CHOOSE i \in S : \A j \in S : j <= i

(* C15: DiscoverEndpoint returns an endpoint or an error, never both and      *)
(* never neither; ErrNoEndpointFound exactly when neither the Link headers    *)
(* nor the document hold a webmention link with a URL; ErrInvalidRelWebmention*)
(* when the first webmention link has a URL that does not parse; and an       *)
(* error without a GET when the HEAD status is not 2xx.                       *)
C15_EndpointOrError ==
    DiscoverDone =>
       /\ spc = "returned"
       /\ (result.endpoint = NilURL) # (result.err = NilError)
       /\ (HeadOK /\ (HeaderLinks # {} \/ GetOK))
             => ((result.err = <<"ErrNoEndpointFound">>)
                    <=> (HeaderLinks = {} /\ WebmentionElements = << >>))
       /\ (/\ HeadOK /\ HeaderLinks # {}
           /\ ~ThePage.head.links[Min(HeaderLinks)].URL.wellformed
           /\ ~ThePage.head.links[Max(HeaderLinks)].URL.wellformed)
             => result.err = <<"ErrInvalidRelWebmention">>
       /\ (/\ HeadOK /\ HeaderLinks = {} /\ GetOK
           /\ WebmentionElements # << >>
           /\ ~HrefOf(WebmentionElements[1]).wellformed)
             => result.err = <<"ErrInvalidRelWebmention">>
       /\ (~ThePage.head.err /\ ThePage.head.status \notin 200..299)
             => (result.err # NilError /\ ~GetIssued)

\* A call of Mention has ended, by a return or by a panic.
MentionDone == call.op = "Mention" /\ spc \in {"returned", "panicked"}

\* What the discovery of the endpoint of the target of the call comes to.
Discovery == DiscoverEndpoint(TheTarget, ThePage)
DiscoveryOK == ~Discovery.panic /\ Discovery.err = ""

\* The POST requests sent, and the URLs of the HEAD requests sent: every
\* Mention starts with a HEAD of its target.
Posts == SelectSeq(requests, LAMBDA r : r.method = "POST")
Heads == SelectSeq(requests, LAMBDA r : r.method = "HEAD")
Attempted == [i \in 1..Len(Heads) |-> Heads[i].url]

(* C16: Mention returns nil exactly when the discovery succeeded and the      *)
(* endpoint answered the POST with a 2xx status; it returns an error when     *)
(* the endpoint answers with another status; and when the discovery fails it  *)
(* returns the error of the discovery and sends no POST.                      *)
C16_MentionOutcome ==
    MentionDone =>
       /\ (spc = "returned" /\ result.err = NilError)
             <=> (/\ DiscoveryOK /\ ~ThePage.post.err
                  /\ ThePage.post.status \in 200..299 /\ Len(Posts) = 1)
       /\ (DiscoveryOK /\ ~ThePage.post.err /\ ThePage.post.status \notin 200..299)
             => (spc = "returned" /\ result.err # NilError)
       /\ ~DiscoveryOK
             => /\ spc = "returned"
                /\ result.err = Wrap("mention", <<Discovery.err>>)
                /\ Posts = << >>

\* A call of MentionMany has ended, by a return or by a panic.
ManyDone == call.op = "MentionMany" /\ spc \in {"returned", "panicked"}

\* What Mention comes to for the i-th target of the call.
MentionOf(i) ==
    SenderMention(call.source, TargetURL(call.targets[i].name), site[call.targets[i].name])

\* The elements of a sequence.
Range(seq) == { seq[i] : i \in 1..Len(seq) }

(* C17: MentionMany attempts Mention for every target of the list, in list    *)
(* order, whatever became of the earlier targets; it returns nil exactly when *)
(* every Mention succeeded, and otherwise a joined error that holds the error *)
(* of each target that failed.                                                *)
C17_EveryTargetAttempted ==
    ManyDone =>
       /\ spc = "returned"
       /\ Attempted = [i \in 1..Len(call.targets) |-> TargetURL(call.targets[i].name)]
       /\ (result.err = NilError)
             <=> \A i \in 1..Len(call.targets) :
                     ~MentionOf(i).panic /\ MentionOf(i).err = NilError
       /\ \A i \in 1..Len(call.targets) :
              (~MentionOf(i).panic /\ MentionOf(i).err # NilError)
                 => MentionOf(i).err \in Range(result.joined)

\* A call of Update has ended, by a return or by a panic.
UpdateDone == call.op = "Update" /\ spc \in {"returned", "panicked"}

\* Every target of the web answers the requests sent to it.
AllAnswered == \A n \in DOMAIN site : ~site[n].head.err /\ ~site[n].post.err

\* The URLs of a list of targets.
URLsOf(targets) == [i \in 1..Len(targets) |-> TargetURL(targets[i].name)]

(* C18: Update attempts a mention for every target among the past targets of  *)
(* the Persister and the current targets: a past target that is no longer     *)
(* current is notified, and with no current target every past one is.         *)
C18_PastAndCurrentNotified ==
    (UpdateDone /\ ~persist.err /\ AllAnswered)
    => \A url \in Range(URLsOf(persist.targets)) \cup Range(URLsOf(call.targets)) :
           url \in Range(Attempted)

(* C19: Update sends no more than one notification per distinct target URL.   *)
C19_OncePerURL ==
    (UpdateDone /\ ~persist.err /\ AllAnswered)
    => \A url \in Range(Attempted) :
           Cardinality({ i \in 1..Len(Attempted) : Attempted[i] = url }) = 1

\* The current targets whose URL is not among the past ones, in their order.
NotAmong(currentTargets, pastTargets) ==
    SelectSeq(URLsOf(currentTargets), LAMBDA url : url \notin Range(URLsOf(pastTargets)))

(* C20: Update sends its mentions in one order: the past targets in the order *)
(* of the Persister, then the current targets that are not among the past     *)
(* ones, in their given order.                                                *)
C20_PastThenCurrent ==
    (UpdateDone /\ ~persist.err /\ AllAnswered)
    => Attempted = URLsOf(persist.targets) \o NotAmong(call.targets, persist.targets)

\* The pairs of source and target of the POST requests among reqs.
MentionsSent(reqs) ==
    { <<reqs[i].source, reqs[i].target>> :
          i \in { j \in 1..Len(reqs) : reqs[j].method = "POST" } }

SourceVerified == verified # NotVerified

\* The positions of the applied options that name the media type.
Naming(m) == { i \in 1..Len(applied) : applied[i].mime = m }

(* C22: when the last WithMediaHandler option that names a media type         *)
(* carries a handler, the worker verifies the sources of that media type      *)
(* with this handler.                                                         *)
C22_LastHandlerWins ==
    (/\ SourceVerified
     /\ Naming(verified.mime) # {}
     /\ applied[Max(Naming(verified.mime))].handler # "nil")
    => verified.handler = applied[Max(Naming(verified.mime))].handler

(* C23: once WithMediaHandler(m, nil) is applied the register holds no        *)
(* handler for m, and the handlers of the other media types are the ones of   *)
(* before.                                                                    *)
C23_NilHandlerRemoves ==
    [][(/\ options # << >>
        /\ applied' = Append(applied, Head(options))
        /\ Head(options).handler = "nil")
       => /\ ~Get(register', Head(options).mime).ok
          /\ \A m \in {"text/html", "text/plain", "application/json"} \ {Head(options).mime} :
                 Get(register', m) = Get(register, m)]_vars

\* The fields of a text, which the separator sep ends.
RECURSIVE Fields(_, _)
Fields(text, sep) ==
    IF text = << >> THEN << >>
    ELSE LET seps == { i \in 1..Len(text) : text[i] = sep }
         IN  IF seps = {} THEN <<text>>
             ELSE <<SubSeq(text, 1, Min(seps) - 1)>>
                  \o Fields(SubSeq(text, Min(seps) + 1, Len(text)), sep)

\* The source was verified with the handler of the first entry of the
\* register named as its media type, and the Accept header had one field
\* per entry, in the order of the register, with ;q= left out exactly for
\* the weight 1.
FirstMatchAndAccept ==
    SourceVerified =>
       LET named == { i \in 1..Len(register) : register[i].name = verified.mime }
           fields == Fields(verified.accept, ",")
       IN  /\ named = {} => verified.err = "no mime handler registered"
           /\ named # {} => verified.handler = register[Min(named)].handler
           /\ Len(fields) = Len(register)
           /\ \A i \in 1..Len(register) :
                  /\ fields[i][1] = register[i].name
                  /\ (Len(fields[i]) = 1) <=> (register[i].qweight = 10)
                  /\ Len(fields[i]) > 1 => fields[i][2] = ";q="

\* The entries inserted so far, in the order of their insertion: the two of
\* NewReceiver, then the ones of the options that carry a handler.
Inserted ==
    mediaHandler
    \o [i \in 1..Cardinality({ j \in 1..Len(applied) : applied[j].handler # "nil" }) |->
           LET opt == SelectSeq(applied, LAMBDA o : o.handler # "nil")[i]
           IN  [name |-> opt.mime, qweight |-> opt.qweight, handler |-> opt.handler]]

\* s is t with some of its elements left out.
RECURSIVE IsSubSeq(_, _)
IsSubSeq(s, t) ==
    IF s = << >> THEN TRUE
    ELSE IF t = << >> THEN FALSE
    ELSE IF Head(s) = Head(t) THEN IsSubSeq(Tail(s), Tail(t))
    ELSE IsSubSeq(s, Tail(t))

C25_LinkOnlyForExactReference ==
    (/\ SourceVerified
     /\ verified.handler \in {"PlainHandler", "HtmlHandler"}
     /\ verified.status = StatusLink)
    => String(VerifiedTarget) \in verified.content.urls

(* C26: the notifiers of a Mention are invoked after its status is final,     *)
(* each receives the Mention with that status, and they begin to run in       *)
(* registration order: the notifier registered earlier before the one         *)
(* registered later.                                                          *)
C26_NotifiersInRegistrationOrder ==
    \A id \in Ids :
        /\ invoked[id] # << >>
              => /\ Completed(id)
                 /\ \A i \in 1..Len(invoked[id]) :
                        /\ invoked[id][i].notifier = notifiers[i]
                        /\ assigned[id] # << >>
                              => invoked[id][i].mention.Status
                                    = assigned[id][Len(assigned[id])]
        /\ \A k1, k2 \in 1..Len(received[id]) :
               k1 < k2 => received[id][k1] < received[id][k2]

C28_OneResponsePerLine ==
    /\ Len(conn.written) = conn.read
    /\ conn.state # "open" => conn.eof /\ conn.read = Len(conn.sent)
    /\ \A i \in 1..Len(conn.written) :
           LET line == conn.sent[i]
               resp == conn.written[i]
           IN  line.text = "json" /\ line.mentions # << >> =>
                   /\ resp.error = ""
                   /\ Len(resp.statuses) = Len(line.mentions)
                   /\ \A k \in 1..Len(line.mentions) :
                          /\ resp.statuses[k].source = line.mentions[k]
                          /\ resp.statuses[k].error = "" <=>
                                 line.mentions[k] = "https://s/post"


C30_WorkersDrainQueue ==
    [][\A w \in Workers :
           (pc[w] # "returned" /\ pc'[w] = "returned") => (queue = << >> \/ ctxDone)]_vars


(* C31: the notifiers of a Mention run in goroutines of their own and none *)
(* of them returns in the model, yet every Mention in the queue is         *)
(* processed to its end, every notifier is invoked for a verified Mention, *)
(* and under fair scheduling each of them begins to run exactly once per   *)
(* verified Mention.                                                       *)
C31_NotifiersDoNotBlock ==
    /\ [](\A id \in Ids :
              /\ invoked[id] # << >> => NotifiersOf(id) = notifiers
              /\ \A k1, k2 \in 1..Len(received[id]) :
                     received[id][k1] = received[id][k2] => k1 = k2)
    /\ \A id \in Ids :
           (\E m \in Queued : m.id = id) ~> Completed(id)
    /\ \A id \in Ids :
           (invoked[id] # << >>) ~>
               [](\A i \in 1..Len(notifiers) :
                      Cardinality({k \in 1..Len(received[id]) : received[id][k] = i}) = 1)

C31_Witness ==
    \E a, b \in Ids :
        /\ a < b
        /\ received[a] # << >>
        /\ Len(received[b]) = Len(notifiers)
        /\ Completed(b)


(* C32: after DiscoverEndpoint has returned, and after processMention has  *)
(* returned, no body of a response to the HEAD or the GET request of that  *)
(* call is open.                                                           *)
C32_BodiesClosed ==
    /\ DiscoverReturned =>
           \A k \in 1..Len(requests) : requests[k].body # "open"
    /\ \A id \in Ids :
           Completed(id) => \A k \in 1..Len(fetched[id]) : fetched[id][k].body # "open"


(* C33: when a request of the sender fails at the transport level (the     *)
(* HEAD or the GET of the discovery, the POST of Mention), DiscoverEndpoint *)
(* and Mention return an error, and no call of the sender ends in a panic  *)
(* on the missing response: MentionMany goes on to the next target.        *)
C33_TransportErrorReturned ==
    /\ (/\ DiscoverDone \/ MentionDone
        /\ \/ ThePage.head.err
           \/ GetIssued /\ ThePage.get.err
           \/ Posts # << >> /\ ThePage.post.err)
       => (spc = "returned" /\ result.err # NilError)
    /\ ManyDone => spc = "returned"


(* C34: when several Link header entries of the HEAD response carry the    *)
(* webmention relation and a URL, DiscoverEndpoint returns the URL of the  *)
(* first of them in header order.                                          *)
C34_FirstLinkEntryWins ==
    (/\ DiscoverDone
     /\ HeadOK
     /\ Cardinality(HeaderLinks) > 1
     /\ \A i \in HeaderLinks : ThePage.head.links[i].URL.wellformed)
    => ReturnedEndpoint(ThePage.head.links[Min(HeaderLinks)].URL)


(* C35: the handler answers 400 and enqueues nothing for every request     *)
(* whose source and target are the same URL, scheme and host compared      *)
(* without regard to letter case and the path byte by byte.                *)
C35_SameURLRejected ==
    [][HandlerStep =>
          \A r \in { q \in Requests :
                       /\ q.method = "POST" /\ q.formOK
                       /\ Len(q.source) = 1 /\ Len(q.target) = 1
                       /\ q.source[1].wellformed /\ q.target[1].wellformed
                       /\ ToLower(q.source[1].scheme) = ToLower(q.target[1].scheme)
                       /\ ToLower(q.source[1].host) = ToLower(q.target[1].host)
                       /\ q.source[1].path = q.target[1].path } :
              ServeHTTP(r) => (response'[nextReq'] = 400 /\ queue' = queue)]_vars


(* C36: every accepted Mention is received from the queue by at most one   *)
(* consumer, a worker loop or the loop of Shutdown, and is processed at    *)
(* most once: it is never in the queue and in the hands of a consumer, or  *)
(* in the hands of two, and it gets one HEAD request and one report.       *)
C36_ProcessedAtMostOnce ==
    \A id \in Ids :
        /\ Cardinality({ i \in 1..Len(queue) : queue[i].id = id })
             + Cardinality({ p \in Procs : mention[p].id = id })
             + (IF Completed(id) THEN 1 ELSE 0) <= 1
        /\ Len(reported[id]) <= 1
        /\ Cardinality({ k \in 1..Len(fetched[id]) : fetched[id][k].method = "HEAD" }) <= 1
        /\ Len(invoked[id]) <= Len(notifiers)

C36_Witness ==
    /\ \E w \in Workers :
           /\ pc[w] \in {"head", "get"} /\ pc[Caller] \in {"head", "get"}
           /\ mention[w].id # mention[Caller].id
    /\ \A id \in Ids : response[id] = 202


(* C37: a notifier receives the status Link or NoLink only for a Mention   *)
(* whose source answered the GET request with a 2xx status.                *)
C37_VerifiedOnly2xx ==
    \A id \in Ids :
        \A i \in 1..Len(invoked[id]) :
            invoked[id][i].mention.Status \in {StatusLink, StatusNoLink}
               => \E k \in 1..Len(fetched[id]) :
                      /\ fetched[id][k].method = "GET"
                      /\ fetched[id][k].status \in 200..299


(* C38: in the mentionee daemon the receiver's Shutdown runs only after the
   server has stopped every handler invocation: once the shutdown channel
   of the receiver is closed no handler is running, and no handler ever
   sends on the closed queue, also when the deadline of the shutdown
   context fired while server.Shutdown was waiting. *)
C38_ShutdownAfterHandlers ==
    /\ shutdown => server.running = {}
    /\ panics = {}


(* C39: no Mention handed to ReportAggregator.Send is lost or delivered
   twice: each is still pending in Todos or is part of exactly one batch
   the underlying Sender delivered, never of two and never of neither,
   when deliveries fail and under every interleaving of Send, the tick of
   Start and the SendNow of the shutdown. *)
C39_NoMentionLostOrTwice ==
    \A id \in agg.handed :
        LET pending == \E k \in 1..Len(agg.Todos) : agg.Todos[k] = id
            batches == { b \in 1..Len(agg.sent) :
                            \E k \in 1..Len(agg.sent[b]) : agg.sent[b][k] = id }
        IN  /\ pending \/ batches # {}
            /\ Cardinality(batches) <= 1
            /\ \A b \in batches :
                   Cardinality({ k \in 1..Len(agg.sent[b]) : agg.sent[b][k] = id }) = 1

====
